---- MODULE Spec2Model ----
(***************************************************************************)
(* Preference Compatibility Engine of the dating application:              *)
(*   PreferenceFilteringService (deal-breaker filter, category scorers,    *)
(*   aggregator) and MatchingService (discovery orchestration, cooldown,   *)
(*   match queue).                                                         *)
(*                                                                         *)
(* Numbers.  The code computes with IEEE doubles.  The model computes with *)
(* exact rationals extended by the three non-finite doubles the code can   *)
(* produce (NaN, +Infinity, -Infinity): a value is a record                *)
(*   [k |-> "num", n |-> numerator, d |-> denominator > 0]  (reduced)      *)
(*   [k |-> "nan" | "pinf" | "ninf", n |-> 0, d |-> 1]                     *)
(*   [k |-> "root4", n, d]   the fourth root of n/d (Math.pow(x, 1/4))     *)
(* Rounding of doubles in the last place is not modelled.                  *)
(***************************************************************************)
EXTENDS Integers, Sequences, FiniteSets, TLC

VARIABLES
    \* PreferenceFilteringService.config
    scoringAlgorithm,
    enableDealBreakerFiltering,
    \* the clock read by Date.now(), in milliseconds
    now,
    \* aggregator inputs and outputs (SpecAgg)
    categoryScores,     \* the four category scores
    weights,            \* criteria.preferenceWeights
    scaleK,             \* the constant the weights are scaled by
    overall,            \* calculateWeightedCompatibility(categoryScores, weights)
    overallScaled,      \* calculateWeightedCompatibility(categoryScores, k * weights)
    gate,               \* meetsMinimumThresholds at a lower and a higher thresholds.overall
    \* deal-breaker filter inputs and outputs (SpecDB)
    dbSeeker,           \* userProfile
    dbPool,             \* candidates
    dbActive,           \* dealBreakers
    dbResult,           \* applyDealBreakerFilters(userProfile, candidates, dealBreakers)
    dbAt,               \* the clock when dbResult was computed
    dbAgain,            \* applyDealBreakerFilters(userProfile, dbResult, dealBreakers)
    dbLater,            \* applyDealBreakerFilters on the candidates when dbAgain was computed
    \* MatchingService
    config,             \* this.config
    userCooldowns,      \* this.userCooldowns: the cooldown end of each seeker
    matchQueue,         \* this.matchQueue
    requests,           \* the calls of findMatches and findAdvancedMatches in flight
    lastSuccess,        \* history: each seeker's latest successful findMatches
    \* PreferencesService over ProfileService
    storedPreferences,  \* the preferences of the stored profile
    prefCalls,          \* the calls of PreferencesService in flight
    prefCallCount,      \* the calls collected so far
    \* scorers, explanation generator and optimization advisor (SpecScore, SpecAdvisor)
    scSeeker,           \* userProfile
    scCandidate,        \* candidate
    scCriteria,         \* criteria (the preference weights are read)
    scAlignment,        \* analyzePreferenceMatch(userProfile, candidate, criteria)
    scExplanation,      \* generateMatchExplanation(userProfile, candidate, scAlignment)
    advGoals,           \* goals
    advResults,         \* currentResults
    advSuggestions      \* optimizePreferenceSettings(userProfile, goals, currentResults)

pfsConfigVars == <<scoringAlgorithm, enableDealBreakerFiltering>>

aggVars == <<categoryScores, weights, scaleK, overall, overallScaled, gate>>

dbVars == <<dbSeeker, dbPool, dbActive, dbResult, dbAt, dbAgain, dbLater>>

svcVars == <<config, userCooldowns, matchQueue, requests, lastSuccess>>

prefVars == <<storedPreferences, prefCalls, prefCallCount>>

engVars == <<scSeeker, scCandidate, scCriteria, scAlignment, scExplanation,
             advGoals, advResults, advSuggestions>>

vars == <<pfsConfigVars, now, aggVars, dbVars, svcVars, prefVars, engVars>>

Categories == {"physical", "lifestyle", "social", "relationship"}

Algorithms == {"weighted_average", "multiplicative", "hybrid"}

\* a configured algorithm id that is none of the three
UnknownAlgorithm == "unknown_algorithm"

-----------------------------------------------------------------------------
(* Arithmetic of JavaScript numbers                                        *)

Abs(x) == IF x < 0 THEN -x ELSE x

RECURSIVE GCD(_, _)
GCD(a, b) == IF b = 0 THEN a ELSE GCD(b, a % b)

Special(kind) == [k |-> kind, n |-> 0, d |-> 1]

NaN == Special("nan")

PosInf == Special("pinf")

NegInf == Special("ninf")

\* a number field that holds no value yet
NotComputed == Special("none")

\* the rational n/d, d # 0, in lowest terms with a positive denominator
Num(n, d) ==
    LET g == GCD(Abs(n), Abs(d))
        s == IF d < 0 THEN -1 ELSE 1
    IN [k |-> "num", n |-> (s * n) \div g, d |-> (s * d) \div g]

Tenths(t) == Num(t, 10)

Sign(x) ==
    CASE x.k = "pinf" -> 1
      [] x.k = "ninf" -> -1
      [] x.k = "num" /\ x.n > 0 -> 1
      [] x.k = "num" /\ x.n < 0 -> -1
      [] OTHER -> 0

IsFinite(x) == x.k = "num"

Signed(s) == IF s > 0 THEN PosInf ELSE NegInf

\* a / b
JsDiv(a, b) ==
    CASE a.k = "nan" \/ b.k = "nan" -> NaN
      [] ~IsFinite(a) /\ ~IsFinite(b) -> NaN
      [] ~IsFinite(a) -> Signed(Sign(a) * (IF Sign(b) < 0 THEN -1 ELSE 1))
      [] ~IsFinite(b) -> Num(0, 1)
      [] b.n = 0 -> IF a.n = 0 THEN NaN ELSE Signed(a.n)
      [] OTHER -> Num(a.n * b.d, a.d * b.n)

\* a * b
JsMul(a, b) ==
    CASE a.k = "nan" \/ b.k = "nan" -> NaN
      [] ~IsFinite(a) \/ ~IsFinite(b) ->
            IF Sign(a) * Sign(b) = 0 THEN NaN ELSE Signed(Sign(a) * Sign(b))
      [] OTHER -> Num(a.n * b.n, a.d * b.d)

\* a + b
JsAdd(a, b) ==
    CASE a.k = "nan" \/ b.k = "nan" -> NaN
      [] ~IsFinite(a) /\ ~IsFinite(b) -> IF a.k = b.k THEN a ELSE NaN
      [] ~IsFinite(a) -> a
      [] ~IsFinite(b) -> b
      [] OTHER -> LET l == (a.d \div GCD(a.d, b.d)) * b.d
                  IN Num(a.n * (l \div a.d) + b.n * (l \div b.d), l)

\* a/b < c/d for naturals a, c and positive b, d, without forming products
\* (Euclid's algorithm on the two fractions)
RECURSIVE FracLt(_, _, _, _)
FracLt(a, b, c, d) ==
    LET qa == a \div b
        qc == c \div d
        ra == a % b
        rc == c % d
    IN IF qa # qc THEN qa < qc
       ELSE IF rc = 0 THEN FALSE
       ELSE IF ra = 0 THEN TRUE
       ELSE FracLt(d, rc, b, ra)

\* a < b for finite rationals
NumLt(a, b) ==
    IF a.n < 0 /\ b.n >= 0 THEN TRUE
    ELSE IF a.n >= 0 /\ b.n < 0 THEN FALSE
    ELSE IF a.n >= 0 THEN FracLt(a.n, a.d, b.n, b.d)
    ELSE FracLt(-b.n, b.d, -a.n, a.d)

Pow4(x) == [k |-> "num", n |-> x.n * x.n * x.n * x.n, d |-> x.d * x.d * x.d * x.d]

Radicand(x) == [k |-> "num", n |-> x.n, d |-> x.d]

\* a < b as the < operator of the language decides it: false when either is NaN
JsLt(a, b) ==
    CASE a.k = "nan" \/ b.k = "nan" -> FALSE
      [] a.k = "ninf" -> b.k # "ninf"
      [] b.k = "pinf" -> a.k # "pinf"
      [] a.k = "pinf" \/ b.k = "ninf" -> FALSE
      [] a.k = "num" /\ b.k = "num" -> NumLt(a, b)
      [] a.k = "root4" /\ b.k = "root4" -> NumLt(Radicand(a), Radicand(b))
      [] a.k = "root4" -> b.n > 0 /\ NumLt(Radicand(a), Pow4(b))
      [] OTHER -> a.n < 0 \/ NumLt(Pow4(a), Radicand(b))

\* the integer fourth root of n when n is a perfect fourth power, else -1
Root4Int(n) ==
    LET top == IF n < 200 THEN n ELSE 200
    IN IF \E r \in 0..top : r * r * r * r = n
       THEN CHOOSE r \in 0..top : r * r * r * r = n
       ELSE -1

\* a power that leaves its argument as it is
MutRoot4Identity(x) == x

\* Math.pow(x, 1/4)
JsRoot4(x) ==
    CASE x.k = "nan" \/ x.k = "ninf" -> NaN
      [] x.k = "pinf" -> PosInf
      [] x.n < 0 -> NaN
      [] Root4Int(x.n) >= 0 /\ Root4Int(x.d) >= 0 -> Num(Root4Int(x.n), Root4Int(x.d))
      [] OTHER -> [k |-> "root4", n |-> x.n, d |-> x.d]

\* Math.min over numbers: NaN if any is NaN
JsMin(a, b) ==
    IF a.k = "nan" \/ b.k = "nan" THEN NaN
    ELSE IF JsLt(b, a) THEN b ELSE a

-----------------------------------------------------------------------------
(* Arrays                                                                  *)

Range(seq) == {seq[i] : i \in 1..Len(seq)}

\* array.includes(x)
Includes(seq, x) == \E i \in 1..Len(seq) : seq[i] = x

\* a.some(x => b.includes(x))
SomeShared(a, b) == \E i \in 1..Len(a) : Includes(b, a[i])

\* the arrays of at most n distinct elements of S
RECURSIVE DistinctSeqs(_, _)
DistinctSeqs(S, n) ==
    IF n = 0 THEN {<<>>}
    ELSE LET shorter == DistinctSeqs(S, n - 1)
         IN shorter \cup
            UNION {{Append(q, x) : x \in S \ Range(q)} : q \in shorter}

-----------------------------------------------------------------------------
(* Profiles (UserProfile).  An optional field that is absent holds         *)
(* Undefined; an absent height is 0 and an absent date is NoDate, the code *)
(* treating both like the absent value; an absent lifestyle level is       *)
(* "unknown", which is what the scorers coalesce it to and which no        *)
(* deal-breaker compares with.                                             *)

Undefined == "undefined"

NoDate == -1

MsPerMinute == 60000

MsPerHour == 60 * MsPerMinute

MsPerDay == 24 * MsPerHour

\* the clock when the model starts
StartTime == 16 * MsPerDay

NoAgeRange == [defined |-> FALSE, min |-> 0, max |-> 0]

AgeRange(lo, hi) == [defined |-> TRUE, min |-> lo, max |-> hi]

BaseProfile ==
    [userId |-> "c1",
     age |-> 28, height |-> 172, bodyType |-> "athletic",
     photos |-> 5, bioLong |-> TRUE,
     smoking |-> "never", drinking |-> "socially", drugs |-> "never",
     exercise |-> "weekly", diet |-> "omnivore",
     education |-> "masters",
     interests |-> <<"hiking", "music">>, interestsIsArray |-> TRUE,
     languages |-> <<"en">>,
     lookingFor |-> <<"casual", "serious">>,
     sexualOrientation |-> "straight",
     isVerified |-> TRUE, premium |-> FALSE, isVisible |-> TRUE,
     completion |-> 85,
     lastActiveAt |-> StartTime - MsPerHour,
     createdAt |-> 0,
     prefBodyTypes |-> <<>>, prefAgeRange |-> NoAgeRange]

Profile(id) ==
    CASE id = "s1" ->
            [BaseProfile EXCEPT !.userId = "s1", !.age = 30, !.height = 175,
                !.education = "phd", !.photos = 3,
                !.prefBodyTypes = <<"athletic", "slim">>,
                !.prefAgeRange = AgeRange(25, 35)]
      [] id = "s2" ->
            [BaseProfile EXCEPT !.userId = "s2", !.age = 41, !.height = 0,
                !.bodyType = Undefined, !.education = Undefined,
                !.smoking = "unknown", !.drinking = "unknown",
                !.exercise = "unknown", !.diet = "unknown",
                !.interests = <<>>, !.languages = <<>>,
                !.lookingFor = <<"serious">>, !.sexualOrientation = "bisexual"]
      [] id = "c1" -> BaseProfile
      [] id = "c2" ->
            [BaseProfile EXCEPT !.userId = "c2", !.age = 33, !.height = 180,
                !.smoking = "regularly", !.drinking = "frequently",
                !.drugs = "occasionally", !.exercise = "never",
                !.diet = "vegan", !.photos = 2, !.bodyType = "slim",
                !.createdAt = StartTime - MsPerHour]
      [] id = "c3" ->
            [BaseProfile EXCEPT !.userId = "c3", !.age = 26, !.height = 200,
                !.bodyType = "curvy", !.photos = 0, !.isVerified = FALSE,
                !.bioLong = FALSE, !.completion = 40, !.smoking = "socially"]
      [] id = "c4" ->
            [BaseProfile EXCEPT !.userId = "c4", !.age = 50, !.height = 160,
                !.education = "high_school", !.languages = <<"fr">>,
                !.lookingFor = <<"polyamorous">>, !.sexualOrientation = "gay",
                !.interests = <<"chess">>, !.photos = 1,
                !.lastActiveAt = NoDate]
      [] id = "c5" ->
            [BaseProfile EXCEPT !.userId = "c5", !.age = 36, !.height = 0,
                !.bodyType = Undefined, !.education = Undefined,
                !.lastActiveAt = StartTime - 15 * MsPerDay,
                !.createdAt = NoDate,
                !.languages = <<>>, !.interests = <<>>,
                !.smoking = "unknown", !.drinking = "unknown",
                !.exercise = "unknown", !.diet = "unknown"]
      [] id = "c6" ->
            [BaseProfile EXCEPT !.userId = "c6", !.age = 30, !.height = 176,
                !.smoking = "socially", !.createdAt = StartTime - MsPerHour,
                !.lastActiveAt = NoDate, !.drugs = "regularly",
                !.bodyType = "slim", !.interests = <<"music">>]
      [] id = "c7" ->
            [BaseProfile EXCEPT !.userId = "c7", !.photos = -1]
      [] id = "c8" ->
            [BaseProfile EXCEPT !.userId = "c8", !.interestsIsArray = FALSE,
                !.interests = <<>>]
      [] id = "c11" ->
            [BaseProfile EXCEPT !.userId = "c11", !.isVisible = FALSE]
      [] id = "c10" ->
            [BaseProfile EXCEPT !.userId = "c10",
                !.lastActiveAt = StartTime - 14 * MsPerDay + MsPerHour,
                !.createdAt = StartTime - 23 * MsPerHour]
      [] OTHER -> [BaseProfile EXCEPT !.userId = id]

SeekerIds == {"s1", "s2"}

-----------------------------------------------------------------------------
(* Deal-Breaker Filter                                                     *)

DealBreakerIds ==
    {"smoking", "no_photos", "height_mismatch", "body_type_mismatch",
     "drinking_heavily", "drug_use", "no_exercise",
     "no_verification", "education_mismatch", "language_barrier",
     "inactive_users", "new_profiles",
     "age_gaps", "relationship_mismatch"}

\* an id that is not in the catalogue
UnknownDealBreaker == "likes_pineapple_pizza"

getEducationLevel(education) ==
    CASE education = "high_school" -> 1
      [] education = "some_college" -> 2
      [] education = "bachelors" -> 3
      [] education = "masters" -> 4
      [] education = "phd" -> 5
      [] education = "trade_school" -> 2
      [] education = "associate" -> 2
      [] OTHER -> 2

\* body_type_mismatch without the test that the candidate has a body type
MutBodyTypeNoUndefinedTest(userProfile, candidate, dealBreaker, t) ==
    /\ dealBreaker = "body_type_mismatch"
    /\ Len(userProfile.prefBodyTypes) > 0
    /\ ~Includes(userProfile.prefBodyTypes, candidate.bodyType)

isDealBreakerTriggered(userProfile, candidate, dealBreaker, t) ==
    CASE dealBreaker = "smoking" ->
            candidate.smoking = "regularly" \/ candidate.smoking = "socially"
      [] dealBreaker = "no_photos" ->
            candidate.photos = -1 \/ candidate.photos = 0
      [] dealBreaker = "height_mismatch" ->
            Abs(userProfile.height - candidate.height) > 20
      [] dealBreaker = "body_type_mismatch" ->
            /\ Len(userProfile.prefBodyTypes) > 0
            /\ candidate.bodyType # Undefined
            /\ ~Includes(userProfile.prefBodyTypes, candidate.bodyType)
      [] dealBreaker = "drinking_heavily" ->
            candidate.drinking = "frequently"
      [] dealBreaker = "drug_use" ->
            candidate.drugs = "regularly" \/ candidate.drugs = "occasionally"
      [] dealBreaker = "no_exercise" ->
            candidate.exercise = "never"
      [] dealBreaker = "no_verification" ->
            ~candidate.isVerified
      [] dealBreaker = "education_mismatch" ->
            IF userProfile.education # Undefined /\ candidate.education # Undefined
            THEN getEducationLevel(userProfile.education)
                    - getEducationLevel(candidate.education) > 2
            ELSE FALSE
      [] dealBreaker = "language_barrier" ->
            ~SomeShared(userProfile.languages, candidate.languages)
      [] dealBreaker = "inactive_users" ->
            \* daysSinceActive > 14, 999 days when the date is absent
            IF candidate.lastActiveAt # NoDate
            THEN t - candidate.lastActiveAt > 14 * MsPerDay
            ELSE TRUE
      [] dealBreaker = "new_profiles" ->
            \* daysSinceCreated < 1, 999 days when the date is absent
            IF candidate.createdAt # NoDate
            THEN t - candidate.createdAt < MsPerDay
            ELSE FALSE
      [] dealBreaker = "age_gaps" ->
            Abs(userProfile.age - candidate.age) > 15
      [] dealBreaker = "relationship_mismatch" ->
            ~SomeShared(userProfile.lookingFor, candidate.lookingFor)
      [] OTHER -> FALSE

\* a loop that stops after the i-th id whether it was a hit or not
MutFirstIdOnly(userProfile, candidate, dealBreakers, i, t) ==
    /\ i <= Len(dealBreakers)
    /\ isDealBreakerTriggered(userProfile, candidate, dealBreakers[i], t)

\* the loop over the active ids, from the i-th on: true at the first hit
RECURSIVE triggersFrom(_, _, _, _, _)
triggersFrom(userProfile, candidate, dealBreakers, i, t) ==
    IF i > Len(dealBreakers) THEN FALSE
    ELSE IF isDealBreakerTriggered(userProfile, candidate, dealBreakers[i], t) THEN TRUE
    ELSE triggersFrom(userProfile, candidate, dealBreakers, i + 1, t)

\* candidates.filter(keep), in order
RECURSIVE filterPassing(_, _, _, _, _)
filterPassing(userProfile, candidates, dealBreakers, i, t) ==
    IF i > Len(candidates) THEN <<>>
    ELSE LET rest == filterPassing(userProfile, candidates, dealBreakers, i + 1, t)
         IN IF triggersFrom(userProfile, Profile(candidates[i]), dealBreakers, 1, t)
            THEN rest
            ELSE <<candidates[i]>> \o rest

\* a filter that ignores the feature flag and the empty list
MutFilterAlways(userProfile, candidates, dealBreakers, enabled, t) ==
    filterPassing(userProfile, candidates, dealBreakers, 1, t)

\* a filter whose scan starts at the second candidate
MutSkipFirstCandidate(userProfile, candidates, dealBreakers, enabled, t) ==
    IF ~enabled \/ Len(dealBreakers) = 0 THEN candidates
    ELSE filterPassing(userProfile, candidates, dealBreakers, 2, t)

\* a filter that eliminates nobody
MutKeepAll(userProfile, candidates, dealBreakers, enabled, t) == candidates

\* candidates are held by user id; userProfile is a profile record
applyDealBreakerFilters(userProfile, candidates, dealBreakers, enabled, t) ==
    IF ~enabled \/ Len(dealBreakers) = 0 THEN candidates
    ELSE filterPassing(userProfile, candidates, dealBreakers, 1, t)

-----------------------------------------------------------------------------
(* Category Scorers (PreferenceFilteringService)                           *)

One == Num(1, 1)

Half == Num(1, 2)

\* array.indexOf(x), counted from 0; -1 when absent
IndexOf(seq, x) ==
    IF Includes(seq, x) THEN (CHOOSE i \in 1..Len(seq) : seq[i] = x) - 1 ELSE -1

calculateBodyTypeCompatibility(userProfile, candidate) ==
    IF Len(userProfile.prefBodyTypes) = 0 \/ candidate.bodyType = Undefined
    THEN Tenths(7)
    ELSE IF Includes(userProfile.prefBodyTypes, candidate.bodyType) THEN One ELSE Tenths(3)

calculateHeightCompatibility(userProfile, candidate) ==
    IF userProfile.height = 0 \/ candidate.height = 0 THEN Tenths(7)
    ELSE LET heightDifference == Abs(userProfile.height - candidate.height)
         IN IF heightDifference <= 5 THEN One
            ELSE IF heightDifference <= 15 THEN Tenths(8)
            ELSE IF heightDifference <= 25 THEN Tenths(6)
            ELSE Tenths(3)

MinInt(a, b) == IF a < b THEN a ELSE b

MaxInt(a, b) == IF a > b THEN a ELSE b

\* an age scorer whose preferred range excludes its two bounds
MutAgeExclusiveBounds(userProfile, candidate) ==
    LET preferredAgeRange == userProfile.prefAgeRange
        outsideBy == MinInt(Abs(candidate.age - preferredAgeRange.min),
                            Abs(candidate.age - preferredAgeRange.max))
    IN IF ~preferredAgeRange.defined THEN Tenths(8)
       ELSE IF candidate.age > preferredAgeRange.min /\ candidate.age < preferredAgeRange.max
       THEN One
       ELSE IF outsideBy <= 2 THEN Tenths(7)
       ELSE IF outsideBy <= 5 THEN Tenths(4)
       ELSE Tenths(1)

calculateAgeCompatibility(userProfile, candidate) ==
    LET preferredAgeRange == userProfile.prefAgeRange
    IN IF ~preferredAgeRange.defined
       THEN LET ageDifference == Abs(userProfile.age - candidate.age)
            IN IF ageDifference <= 3 THEN One
               ELSE IF ageDifference <= 7 THEN Tenths(8)
               ELSE IF ageDifference <= 12 THEN Tenths(6)
               ELSE Tenths(3)
       ELSE IF candidate.age >= preferredAgeRange.min /\ candidate.age <= preferredAgeRange.max
       THEN One
       ELSE LET outsideBy == MinInt(Abs(candidate.age - preferredAgeRange.min),
                                    Abs(candidate.age - preferredAgeRange.max))
            IN IF outsideBy <= 2 THEN Tenths(7)
               ELSE IF outsideBy <= 5 THEN Tenths(4)
               ELSE Tenths(1)

\* candidate.photos?.length || 0
calculateAppearanceScore(candidate) ==
    LET photoCount == IF candidate.photos = -1 THEN 0 ELSE candidate.photos
    IN IF photoCount = 0 THEN Tenths(2)
       ELSE IF photoCount >= 5 THEN One
       ELSE IF photoCount >= 3 THEN Tenths(8)
       ELSE IF photoCount >= 2 THEN Tenths(6)
       ELSE Tenths(4)

calculateSmokingCompatibility(userProfile, candidate) ==
    LET userSmoking == userProfile.smoking
        candidateSmoking == candidate.smoking
    IN IF userSmoking = candidateSmoking THEN One
       ELSE IF \/ (userSmoking = "never" /\ candidateSmoking = "socially")
               \/ (userSmoking = "socially" /\ candidateSmoking = "never")
       THEN Tenths(6)
       ELSE IF \/ (userSmoking = "never" /\ candidateSmoking = "regularly")
               \/ (userSmoking = "regularly" /\ candidateSmoking = "never")
       THEN Tenths(2)
       ELSE Half

drinkingLevels == <<"never", "rarely", "socially", "regularly", "frequently">>

calculateDrinkingCompatibility(userProfile, candidate) ==
    LET userLevel == IndexOf(drinkingLevels, userProfile.drinking)
        candidateLevel == IndexOf(drinkingLevels, candidate.drinking)
    IN IF userProfile.drinking = candidate.drinking THEN One
       ELSE IF userLevel >= 0 /\ candidateLevel >= 0
       THEN LET difference == Abs(userLevel - candidateLevel)
            IN IF difference <= 1 THEN Tenths(8)
               ELSE IF difference <= 2 THEN Tenths(6)
               ELSE Tenths(3)
       ELSE Half

exerciseLevels == <<"never", "rarely", "sometimes", "regularly", "daily">>

calculateExerciseCompatibility(userProfile, candidate) ==
    LET userLevel == IndexOf(exerciseLevels, userProfile.exercise)
        candidateLevel == IndexOf(exerciseLevels, candidate.exercise)
    IN IF userProfile.exercise = candidate.exercise THEN One
       ELSE IF userLevel >= 0 /\ candidateLevel >= 0
       THEN LET difference == Abs(userLevel - candidateLevel)
            IN IF difference <= 1 THEN Tenths(8)
               ELSE IF difference <= 2 THEN Tenths(6)
               ELSE Tenths(4)
       ELSE Half

calculateDietCompatibility(userProfile, candidate) ==
    LET userDiet == userProfile.diet
        candidateDiet == candidate.diet
    IN IF userDiet = candidateDiet THEN One
       ELSE IF userDiet = "vegetarian" /\ candidateDiet = "vegan" THEN Tenths(7)
       ELSE IF userDiet = "vegan" /\ candidateDiet = "vegetarian" THEN Tenths(7)
       ELSE IF \/ (userDiet = "omnivore" /\ candidateDiet = "vegetarian")
               \/ (userDiet = "vegetarian" /\ candidateDiet = "omnivore")
       THEN Tenths(6)
       ELSE Half

calculateSocialHabitsCompatibility(userProfile, candidate) == Half

calculateEducationCompatibility(userProfile, candidate) ==
    IF userProfile.education = Undefined \/ candidate.education = Undefined THEN Half
    ELSE LET difference == Abs(getEducationLevel(userProfile.education)
                                 - getEducationLevel(candidate.education))
         IN IF difference = 0 THEN One
            ELSE IF difference = 1 THEN Tenths(8)
            ELSE IF difference = 2 THEN Tenths(6)
            ELSE Tenths(4)

calculateOccupationCompatibility(userProfile, candidate) == Half

\* userInterests.filter(interest => candidateInterests.includes(interest)).length
CommonCount(a, b) == Cardinality({i \in 1..Len(a) : Includes(b, a[i])})

\* candidate.personalInfo.interests holds a value that is no array: its
\* includes is not a function, and the call raises a TypeError; the call is
\* reached when the seeker has interests (a non-array has no length of 0)
interestsThrows(userProfile, candidate) ==
    /\ ~candidate.interestsIsArray
    /\ Len(userProfile.interests) > 0

calculateInterestsCompatibility(userProfile, candidate) ==
    LET userInterests == userProfile.interests
        candidateInterests == candidate.interests
    IN IF Len(userInterests) = 0 THEN Half
       ELSE IF ~candidate.interestsIsArray THEN NaN  \* not returned: interestsThrows
       ELSE IF Len(candidateInterests) = 0 THEN Half
       ELSE LET compatibility ==
                    Num(CommonCount(userInterests, candidateInterests),
                        MinInt(Len(userInterests), Len(candidateInterests)))
            IN IF JsLt(One, compatibility) THEN One ELSE compatibility

calculateLanguageCompatibility(userProfile, candidate) ==
    IF Len(userProfile.languages) = 0 \/ Len(candidate.languages) = 0 THEN Tenths(7)
    ELSE IF SomeShared(userProfile.languages, candidate.languages) THEN One ELSE Tenths(2)

calculateRelationshipTypeCompatibility(userProfile, candidate) ==
    IF SomeShared(userProfile.lookingFor, candidate.lookingFor) THEN One ELSE Tenths(2)

calculateSexualOrientationCompatibility(userProfile, candidate) ==
    IF userProfile.sexualOrientation = candidate.sexualOrientation THEN One
    ELSE IF userProfile.sexualOrientation = "bisexual"
            \/ candidate.sexualOrientation = "bisexual"
    THEN Tenths(8)
    ELSE Tenths(3)

calculateCommitmentCompatibility(userProfile, candidate) == Half

calculateFamilyGoalsCompatibility(userProfile, candidate) == Half

\* totalScore / factorCount over the sub-factor scores of one category
RECURSIVE SumSeq(_)
SumSeq(seq) == IF seq = <<>> THEN Num(0, 1) ELSE JsAdd(Head(seq), SumSeq(Tail(seq)))

\* a mean that takes every category to have four sub-factors
MutAverageOfFour(seq) == JsDiv(SumSeq(seq), Num(4, 1))

Average(seq) == JsDiv(SumSeq(seq), Num(Len(seq), 1))

physicalBreakdown(userProfile, candidate) ==
    [bodyType |-> calculateBodyTypeCompatibility(userProfile, candidate),
     height |-> calculateHeightCompatibility(userProfile, candidate),
     age |-> calculateAgeCompatibility(userProfile, candidate),
     appearance |-> calculateAppearanceScore(candidate)]

calculatePhysicalScore(userProfile, candidate) ==
    LET b == physicalBreakdown(userProfile, candidate)
    IN [score |-> Average(<<b.bodyType, b.height, b.age, b.appearance>>),
        breakdown |-> b]

lifestyleBreakdown(userProfile, candidate) ==
    [smoking |-> calculateSmokingCompatibility(userProfile, candidate),
     drinking |-> calculateDrinkingCompatibility(userProfile, candidate),
     exercise |-> calculateExerciseCompatibility(userProfile, candidate),
     diet |-> calculateDietCompatibility(userProfile, candidate),
     socialHabits |-> calculateSocialHabitsCompatibility(userProfile, candidate)]

calculateLifestyleScore(userProfile, candidate) ==
    LET b == lifestyleBreakdown(userProfile, candidate)
    IN [score |-> Average(<<b.smoking, b.drinking, b.exercise, b.diet, b.socialHabits>>),
        breakdown |-> b]

socialBreakdown(userProfile, candidate) ==
    [education |-> calculateEducationCompatibility(userProfile, candidate),
     occupation |-> calculateOccupationCompatibility(userProfile, candidate),
     interests |-> calculateInterestsCompatibility(userProfile, candidate),
     languages |-> calculateLanguageCompatibility(userProfile, candidate),
     personality |-> Half]

calculateSocialScore(userProfile, candidate) ==
    LET b == socialBreakdown(userProfile, candidate)
    IN [score |-> Average(<<b.education, b.occupation, b.interests, b.languages,
                            b.personality>>),
        breakdown |-> b]

relationshipBreakdown(userProfile, candidate) ==
    [relationshipType |-> calculateRelationshipTypeCompatibility(userProfile, candidate),
     sexualOrientation |-> calculateSexualOrientationCompatibility(userProfile, candidate),
     commitmentLevel |-> calculateCommitmentCompatibility(userProfile, candidate),
     familyGoals |-> calculateFamilyGoalsCompatibility(userProfile, candidate),
     communication |-> Half]

calculateRelationshipScore(userProfile, candidate) ==
    LET b == relationshipBreakdown(userProfile, candidate)
    IN [score |-> Average(<<b.relationshipType, b.sexualOrientation, b.commitmentLevel,
                            b.familyGoals, b.communication>>),
        breakdown |-> b]

calculateCategoryScores(userProfile, candidate) ==
    [physical |-> calculatePhysicalScore(userProfile, candidate),
     lifestyle |-> calculateLifestyleScore(userProfile, candidate),
     social |-> calculateSocialScore(userProfile, candidate),
     relationship |-> calculateRelationshipScore(userProfile, candidate)]

\* the four category scores without their breakdowns
ScoresOf(categoryAlignments) == [c \in Categories |-> categoryAlignments[c].score]

-----------------------------------------------------------------------------
(* Compatibility Aggregator                                                *)

\* a normalisation that leaves the weight as given (no division by the total)
MutNormalizeRaw(w, totalWeight) == w

normalizeWeight(w, totalWeight) == JsDiv(w, totalWeight)

\* a plain mean of the four category scores, the weights ignored
MutWeightedAverageMean(cs, w) ==
    JsDiv(JsAdd(JsAdd(JsAdd(cs.physical, cs.lifestyle), cs.social), cs.relationship),
          Num(4, 1))

weightedAverage(cs, w) ==
    LET totalWeight == JsAdd(JsAdd(JsAdd(w.physical, w.lifestyle), w.social), w.relationship)
        nw == [c \in Categories |-> normalizeWeight(w[c], totalWeight)]
    IN JsAdd(JsAdd(JsAdd(JsMul(cs.physical, nw.physical),
                         JsMul(cs.lifestyle, nw.lifestyle)),
                   JsMul(cs.social, nw.social)),
             JsMul(cs.relationship, nw.relationship))

minCategoryScore(cs) ==
    JsMin(JsMin(JsMin(cs.physical, cs.lifestyle), cs.social), cs.relationship)

\* a switch whose default branch falls back to the weighted average
MutUnknownAsWeightedAverage(cs, w, algorithm) ==
    IF algorithm = "multiplicative"
    THEN JsRoot4(JsMul(JsMul(JsMul(cs.physical, cs.lifestyle), cs.social), cs.relationship))
    ELSE weightedAverage(cs, w)

calculateWeightedCompatibility(cs, w, algorithm) ==
    CASE algorithm = "weighted_average" -> weightedAverage(cs, w)
      [] algorithm = "multiplicative" ->
            JsRoot4(JsMul(JsMul(JsMul(cs.physical, cs.lifestyle), cs.social), cs.relationship))
      [] algorithm = "hybrid" ->
            LET minScore == minCategoryScore(cs)
                penalty == IF JsLt(minScore, Tenths(3)) THEN JsDiv(minScore, Tenths(3))
                           ELSE Num(1, 1)
            IN JsMul(weightedAverage(cs, w), penalty)
      [] OTHER -> Num(1, 2)

ScoreRecord(p, l, s, r) ==
    [physical |-> p, lifestyle |-> l, social |-> s, relationship |-> r]

\* Scenario C of the specification, and the service's default weights
ScenarioCScores == ScoreRecord(Tenths(9), Tenths(5), Tenths(5), Tenths(5))

ScenarioCWeights == ScoreRecord(Tenths(6), Tenths(2), Tenths(1), Tenths(1))

defaultWeights == ScoreRecord(Num(30, 100), Num(25, 100), Num(25, 100), Num(20, 100))

-----------------------------------------------------------------------------
(* Basic matching (MatchingService).  LocationService is outside the       *)
(* sources: a location is carried as the distance in km that               *)
(* calculateDistance reports between it and the seeker's location.         *)

defaultConfig ==
    [maxRadius |-> 100, maxResults |-> 50, cooldownPeriod |-> 5,
     enableLocationFiltering |-> TRUE, enableAgeFiltering |-> TRUE]

\* this.weights of the basic score, in hundredths
basicWeights ==
    [distance |-> Num(30, 100), age |-> Num(20, 100), commonInterests |-> Num(25, 100),
     activityLevel |-> Num(15, 100), profileCompleteness |-> Num(10, 100)]

\* userLocations.find(ul => ul.userId === id)
HasLocation(userLocations, id) ==
    \E i \in 1..Len(userLocations) : userLocations[i].userId = id

LocationOf(userLocations, id) ==
    userLocations[CHOOSE i \in 1..Len(userLocations) :
                     /\ userLocations[i].userId = id
                     /\ \A j \in 1..(i - 1) : userLocations[j].userId # id]

\* the error validateMatchingCriteria throws, "none" when it returns
validateMatchingCriteria(criteria, cfg) ==
    IF criteria.maxDistance > cfg.maxRadius THEN "max_distance_exceeded"
    ELSE IF criteria.ageRange.defined
            /\ (criteria.ageRange.min < 18 \/ criteria.ageRange.max > 99)
    THEN "invalid_age_range"
    ELSE "none"

\* a filter predicate that lets hidden profiles through
MutFilterIgnoringVisibility(userId, criteria, candidate, userLocations, cfg, t) ==
    /\ candidate.userId # userId
    /\ HasLocation(userLocations, candidate.userId)
    /\ ~(/\ cfg.enableAgeFiltering
         /\ criteria.ageRange.defined
         /\ (candidate.age < criteria.ageRange.min \/ candidate.age > criteria.ageRange.max))
    /\ ~(/\ Len(criteria.sexualOrientations) > 0
         /\ ~Includes(criteria.sexualOrientations, candidate.sexualOrientation))
    /\ ~(/\ criteria.lastActiveWithin # 0
         /\ candidate.lastActiveAt # NoDate
         /\ candidate.lastActiveAt < t - criteria.lastActiveWithin * MsPerHour)

\* the predicate of filterCandidates
passesBasicFilter(userId, criteria, candidate, userLocations, cfg, t) ==
    /\ candidate.userId # userId
    /\ candidate.isVisible
    /\ HasLocation(userLocations, candidate.userId)
    /\ ~(/\ cfg.enableAgeFiltering
         /\ criteria.ageRange.defined
         /\ (candidate.age < criteria.ageRange.min \/ candidate.age > criteria.ageRange.max))
    /\ ~(/\ Len(criteria.sexualOrientations) > 0
         /\ ~Includes(criteria.sexualOrientations, candidate.sexualOrientation))
    /\ ~(/\ criteria.lastActiveWithin # 0
         /\ candidate.lastActiveAt # NoDate
         /\ candidate.lastActiveAt < t - criteria.lastActiveWithin * MsPerHour)

filterCandidates(userId, criteria, availableUsers, userLocations, cfg, t) ==
    LET Keep(id) == passesBasicFilter(userId, criteria, Profile(id), userLocations, cfg, t)
    IN SelectSeq(availableUsers, Keep)

calculateDistanceScore(distance, maxDistance) ==
    IF distance >= maxDistance THEN Num(0, 1) ELSE Num(maxDistance - distance, maxDistance)

\* MatchingService.calculateAgeCompatibility, by the age difference alone
calculateBasicAgeCompatibility(userProfile, candidateProfile) ==
    LET ageDiff == Abs(userProfile.age - candidateProfile.age)
    IN IF ageDiff <= 2 THEN One
       ELSE IF ageDiff <= 5 THEN Tenths(8)
       ELSE IF ageDiff <= 10 THEN Tenths(6)
       ELSE IF ageDiff <= 15 THEN Tenths(4)
       ELSE Tenths(2)

calculatePreferenceAlignment(userProfile, candidateProfile) ==
    LET score == 5 + (IF SomeShared(userProfile.lookingFor, candidateProfile.lookingFor)
                      THEN 3 ELSE 0)
                   + (IF userProfile.sexualOrientation = candidateProfile.sexualOrientation
                      THEN 2 ELSE 0)
    IN Tenths(MinInt(score, 10))

\* candidateProfile.photos.length of absent photos raises a TypeError
activityThrows(candidateProfile) == candidateProfile.photos = -1

calculateActivityScore(candidateProfile, t) ==
    LET score == 5 + (IF candidateProfile.photos > 0 THEN 2 ELSE 0)
                   + (IF candidateProfile.bioLong THEN 2 ELSE 0)
                   + (IF candidateProfile.lastActiveAt # NoDate
                         /\ candidateProfile.lastActiveAt > t - 3 * MsPerDay
                      THEN 1 ELSE 0)
    IN Tenths(MinInt(score, 10))

\* Math.round(x) of a finite x that is not negative
JsRound(x) == (2 * x.n + x.d) \div (2 * x.d)

calculateCompatibilityScore(userProfile, candidateProfile, distance, t) ==
    LET totalScore ==
            JsAdd(JsAdd(JsAdd(JsAdd(
                JsMul(calculateDistanceScore(distance, 50), basicWeights.distance),
                JsMul(calculateBasicAgeCompatibility(userProfile, candidateProfile),
                      basicWeights.age)),
                JsMul(calculatePreferenceAlignment(userProfile, candidateProfile),
                      basicWeights.commonInterests)),
                JsMul(calculateActivityScore(candidateProfile, t),
                      basicWeights.activityLevel)),
                JsMul(Num(candidateProfile.completion, 100),
                      basicWeights.profileCompleteness))
    IN Num(JsRound(JsMul(totalScore, Num(100, 1))), 100)

NoCategoryScores == [c \in Categories |-> NotComputed]

\* a MatchResult; compatibilityScore and categoryScores are the fields a
\* PreferenceMatchResult adds to it
MatchResult(userProfile, candidateProfile, distance, t) ==
    [targetUserId |-> candidateProfile.userId,
     score |-> calculateCompatibilityScore(userProfile, candidateProfile, distance, t),
     distance |-> distance,
     compatibilityScore |-> NotComputed,
     categoryScores |-> NoCategoryScores]

\* the loop of scoreMatches from candidate i on: a candidate outside the
\* radius is skipped, one whose scoring throws is logged and skipped
RECURSIVE scoreFrom(_, _, _, _, _, _, _)
scoreFrom(userProfile, candidates, userLocations, criteria, cfg, t, i) ==
    IF i > Len(candidates) THEN <<>>
    ELSE LET candidate == Profile(candidates[i])
             distance == LocationOf(userLocations, candidates[i]).distance
             rest == scoreFrom(userProfile, candidates, userLocations, criteria, cfg, t, i + 1)
         IN IF cfg.enableLocationFiltering /\ distance > criteria.maxDistance THEN rest
            ELSE IF activityThrows(candidate) THEN rest
            ELSE <<MatchResult(userProfile, candidate, distance, t)>> \o rest

scoreMatches(userProfile, candidates, userLocations, criteria, cfg, t) ==
    scoreFrom(userProfile, candidates, userLocations, criteria, cfg, t, 1)

\* whether the comparator of the ordering is negative for (a, b), that is a
\* sorts before b; a NaN difference ranks the two as equal
Before(a, b, order) ==
    CASE order = "score_desc" -> JsLt(b.score, a.score)
      [] order = "compatibility_desc" -> JsLt(b.compatibilityScore, a.compatibilityScore)
      [] order = "compatibility_asc" -> JsLt(a.compatibilityScore, b.compatibilityScore)
      [] OTHER -> FALSE

\* x placed into a sorted array behind every element it does not precede
RECURSIVE InsertSorted(_, _, _)
InsertSorted(x, sorted, order) ==
    IF sorted = <<>> THEN <<x>>
    ELSE IF Before(x, Head(sorted), order) THEN <<x>> \o sorted
    ELSE <<Head(sorted)>> \o InsertSorted(x, Tail(sorted), order)

\* Array.prototype.sort with the comparator of the ordering (a stable sort)
RECURSIVE SortFrom(_, _, _)
SortFrom(matches, order, n) ==
    IF n = 0 THEN <<>>
    ELSE InsertSorted(matches[n], SortFrom(matches, order, n - 1), order)

SortMatches(matches, order) == SortFrom(matches, order, Len(matches))

\* array.slice(0, n); a negative n counts from the end of the array
Slice(seq, n) ==
    SubSeq(seq, 1, IF n < 0 THEN MaxInt(Len(seq) + n, 0) ELSE MinInt(Len(seq), n))

\* the comparator findAdvancedMatches sorts with under criteria.sort
advancedOrder(sort) ==
    IF sort.by = "compatibility"
    THEN IF sort.direction = "desc" THEN "compatibility_desc" ELSE "compatibility_asc"
    ELSE "score_desc"

NotSet == Special("undefined")

\* JavaScript truthiness of an optional number
Truthy(x) == x.k \notin {"undefined", "nan"} /\ ~(x.k = "num" /\ x.n = 0)

\* a gate whose overall comparison is the wrong way round
MutMeetsReversed(preferenceAlignment, thresholds) ==
    JsLt(preferenceAlignment.totalScore, thresholds.overall)

\* a gate that lets every candidate through
MutMeetsAlways(preferenceAlignment, thresholds) == TRUE

meetsMinimumThresholds(preferenceAlignment, thresholds) ==
    /\ ~JsLt(preferenceAlignment.totalScore, thresholds.overall)
    /\ \A c \in Categories :
          ~(Truthy(thresholds[c])
            /\ JsLt(preferenceAlignment.categoryAlignments[c].score, thresholds[c]))

\* analyzePreferenceMatch: the alignment fields the orchestrator reads
analyzePreferenceMatch(userProfile, candidate, criteria, algorithm) ==
    LET cs == calculateCategoryScores(userProfile, candidate)
    IN [totalScore |-> calculateWeightedCompatibility(ScoresOf(cs),
                                                      criteria.preferenceWeights, algorithm),
        categoryAlignments |-> cs]

-----------------------------------------------------------------------------
(* Discovery orchestration (MatchingService).  A request is one call of    *)
(* findMatches or findAdvancedMatches; the code between two awaits runs    *)
(* without interruption and is one action, and requests, administrative    *)
(* calls and the clock interleave at the awaits.  The stages a request has *)
(* passed are logged in its stages field, Phase 1 of findAdvancedMatches   *)
(* (the whole call of findMatches) being the stage LocationFilter.         *)

Slots == {1, 2}

TickMs == (5 * MsPerMinute) \div 2

NoQueue == [present |-> FALSE, pendingMatches |-> <<>>, totalCount |-> 0,
            processedCount |-> 0, lastProcessedAt |-> NoDate, queueStatus |-> "none"]

NoSuccess == [at |-> NoDate, period |-> 0, cleared |-> FALSE]

lenientThresholds ==
    [overall |-> Num(0, 1), physical |-> NotSet, lifestyle |-> NotSet,
     social |-> NotSet, relationship |-> NotSet]

\* the thresholds of the default preference configuration
defaultThresholds ==
    [overall |-> Tenths(6), physical |-> Tenths(4), lifestyle |-> Tenths(3),
     social |-> Tenths(3), relationship |-> Tenths(4)]

BaseCriteria ==
    [userId |-> "s1", maxDistance |-> 25, ageRange |-> AgeRange(18, 99),
     sexualOrientations |-> <<>>, lastActiveWithin |-> 0,
     sort |-> [by |-> "compatibility", direction |-> "desc"],
     preferenceWeights |-> defaultWeights,
     minimumThresholds |-> lenientThresholds,
     dealBreakers |-> <<>>]

SwitchesOf(cfg) ==
    [enableLocationFiltering |-> cfg.enableLocationFiltering,
     enableAgeFiltering |-> cfg.enableAgeFiltering]

IdleRequest ==
    [pc |-> "idle", kind |-> "none", userId |-> "s1", criteria |-> BaseCriteria,
     availableUsers |-> <<>>, userLocations |-> <<>>,
     scoredMatches |-> <<>>, basicMatches |-> <<>>, survivors |-> <<>>,
     result |-> <<>>, error |-> "none", stages |-> <<>>,
     enteredAt |-> NoDate, dueAtEntry |-> FALSE, clearedAtEntry |-> FALSE,
     doneAt |-> NoDate,
     \* history: the filtering switches filterCandidates and scoreMatches read
     switchesAtFilter |-> SwitchesOf(defaultConfig)]

Fail(req, err) == [req EXCEPT !.pc = "failed", !.error = err]

\* a cooldown check that finds nobody on cooldown
MutNeverOnCooldown(userId) == FALSE

isUserOnCooldown(userId) ==
    /\ userCooldowns[userId] # NoDate
    /\ now < userCooldowns[userId]

\* whether a request entering now falls inside the cooldown period that the
\* seeker's latest successful request opened
CooldownDue(userId) ==
    LET s == lastSuccess[userId]
    IN /\ s.at # NoDate
       /\ now < s.at + s.period * MsPerMinute

\* findMatches up to its first await: cooldown check, then validation
EnterFindMatches(req) ==
    LET entered == [req EXCEPT !.enteredAt = now,
                               !.dueAtEntry = CooldownDue(req.userId),
                               !.clearedAtEntry = lastSuccess[req.userId].cleared]
        invalid == validateMatchingCriteria(req.criteria, config)
    IN IF isUserOnCooldown(req.userId) THEN Fail(entered, "cooldown")
       ELSE IF invalid # "none" THEN Fail(entered, invalid)
       ELSE [entered EXCEPT !.pc = "awaitLocation"]

\* the userLocations findAdvancedMatches makes up: one entry per available
\* user at a random place of the London area, which puts each candidate at
\* one of the distances of levels from the seeker
RECURSIVE RandomLocations(_, _, _)
RandomLocations(userId, availableUsers, levels) ==
    IF availableUsers = <<>> THEN {<<>>}
    ELSE LET first == Head(availableUsers)
             distances == IF first = userId THEN {0} ELSE levels
         IN {<<[userId |-> first, distance |-> d]>> \o rest :
                d \in distances,
                rest \in RandomLocations(userId, Tail(availableUsers), levels)}

svcUnchanged == UNCHANGED <<pfsConfigVars, aggVars, dbVars, prefVars, engVars>>

\* findAdvancedMatches(criteria, availableUsers) up to its first await
CallFindAdvancedMatches(r, calls) ==
    /\ requests[r].pc = "idle"
    /\ \E call \in calls :
          requests' = [requests EXCEPT ![r] =
             [IdleRequest EXCEPT !.pc = "awaitProfile", !.kind = "advanced",
                                 !.userId = call.criteria.userId,
                                 !.criteria = call.criteria,
                                 !.availableUsers = call.availableUsers,
                                 !.stages = <<"Init">>]]
    /\ UNCHANGED <<config, userCooldowns, matchQueue, lastSuccess, now>>
    /\ svcUnchanged

\* getUserProfile has answered: without a profile the request fails, with
\* one the locations are made up and findMatches is entered
ResumeWithProfile(r, levels) ==
    LET req == requests[r]
    IN /\ req.pc = "awaitProfile"
       /\ \/ requests' = [requests EXCEPT ![r] = Fail(req, "USER_NOT_FOUND")]
          \/ \E locs \in RandomLocations(req.userId, req.availableUsers, levels) :
                requests' = [requests EXCEPT ![r] =
                    EnterFindMatches([req EXCEPT !.userLocations = locs,
                                                 !.stages = Append(@, "LocationFilter")])]
       /\ UNCHANGED <<config, userCooldowns, matchQueue, lastSuccess, now>>
       /\ svcUnchanged

\* findMatches(userId, userProfile, criteria, availableUsers, userLocations)
\* called by a client
CallFindMatches(r, calls) ==
    /\ requests[r].pc = "idle"
    /\ \E call \in calls :
          requests' = [requests EXCEPT ![r] =
             EnterFindMatches([IdleRequest EXCEPT !.kind = "basic",
                                                  !.userId = call.criteria.userId,
                                                  !.criteria = call.criteria,
                                                  !.availableUsers = call.availableUsers,
                                                  !.userLocations = call.userLocations])]
    /\ UNCHANGED <<config, userCooldowns, matchQueue, lastSuccess, now>>
    /\ svcUnchanged

\* a resumption that starts the seeker's cooldown whatever getUserLocation
\* answered
MutResumeStartingCooldown(r) ==
    LET req == requests[r]
    IN /\ req.pc = "awaitLocation"
       /\ requests' = [requests EXCEPT ![r] =
             IF ~HasLocation(req.userLocations, req.userId)
             THEN Fail(req, "location_unavailable")
             ELSE [req EXCEPT !.pc = "awaitScores",
                              !.scoredMatches =
                                  scoreMatches(Profile(req.userId),
                                      filterCandidates(req.userId, req.criteria,
                                          req.availableUsers, req.userLocations,
                                          config, now),
                                      req.userLocations, req.criteria, config, now)]]
       /\ userCooldowns' = [userCooldowns EXCEPT ![req.userId] =
                               now + config.cooldownPeriod * MsPerMinute]
       /\ UNCHANGED <<config, matchQueue, lastSuccess, now>>
       /\ svcUnchanged

\* getUserLocation has answered: filterCandidates, then scoreMatches
ResumeWithLocation(r) ==
    LET req == requests[r]
        candidates == filterCandidates(req.userId, req.criteria, req.availableUsers,
                                       req.userLocations, config, now)
    IN /\ req.pc = "awaitLocation"
       /\ requests' = [requests EXCEPT ![r] =
             IF ~HasLocation(req.userLocations, req.userId)
             THEN Fail(req, "location_unavailable")
             ELSE [req EXCEPT !.pc = "awaitScores",
                              !.switchesAtFilter = SwitchesOf(config),
                              !.scoredMatches =
                                  scoreMatches(Profile(req.userId), candidates,
                                               req.userLocations, req.criteria, config, now)]]
       /\ UNCHANGED <<config, userCooldowns, matchQueue, lastSuccess, now>>
       /\ svcUnchanged

setCooldown(userId) ==
    [userCooldowns EXCEPT ![userId] = now + config.cooldownPeriod * MsPerMinute]

\* a queue write that keeps the queue the seeker already has
MutKeepExistingQueue(userId, matches) ==
    IF matchQueue[userId].present THEN matchQueue
    ELSE [matchQueue EXCEPT ![userId] =
             [present |-> TRUE, pendingMatches |-> matches, totalCount |-> Len(matches),
              processedCount |-> 0, lastProcessedAt |-> now, queueStatus |-> "active"]]

addToMatchQueue(userId, matches) ==
    [matchQueue EXCEPT ![userId] =
        [present |-> TRUE, pendingMatches |-> matches, totalCount |-> Len(matches),
         processedCount |-> 0, lastProcessedAt |-> now, queueStatus |-> "active"]]

\* scoreMatches has answered: sort, limit, cooldown, queue, return
ResumeWithScores(r) ==
    LET req == requests[r]
        sortedMatches == SortMatches(req.scoredMatches, "score_desc")
        limitedMatches == Slice(sortedMatches, config.maxResults)
    IN /\ req.pc = "awaitScores"
       /\ userCooldowns' = setCooldown(req.userId)
       /\ matchQueue' = addToMatchQueue(req.userId, limitedMatches)
       /\ lastSuccess' = [lastSuccess EXCEPT ![req.userId] =
                             [at |-> now, period |-> config.cooldownPeriod, cleared |-> FALSE]]
       /\ requests' = [requests EXCEPT ![r] =
             IF req.kind = "basic"
             THEN [req EXCEPT !.pc = "done", !.basicMatches = limitedMatches,
                              !.result = limitedMatches, !.doneAt = now]
             ELSE [req EXCEPT !.pc = "awaitBasicMatches", !.basicMatches = limitedMatches]]
       /\ UNCHANGED <<config, now>>
       /\ svcUnchanged

\* basicMatches.map(match => match.targetUserId)
TargetIds(matches) == [i \in 1..Len(matches) |-> matches[i].targetUserId]

\* basicMatches.find(match => match.targetUserId === id)
FindMatch(matches, id) ==
    matches[CHOOSE i \in 1..Len(matches) :
               /\ matches[i].targetUserId = id
               /\ \A j \in 1..(i - 1) : matches[j].targetUserId # id]

\* the index of the first candidate whose analysis throws, 0 if none does
ThrowingIndex(userProfile, candidateProfiles) ==
    LET throwing == {i \in 1..Len(candidateProfiles) :
                        interestsThrows(userProfile, Profile(candidateProfiles[i]))}
    IN IF throwing = {} THEN 0
       ELSE CHOOSE i \in throwing : \A j \in throwing : i <= j

\* the Phase 3 loop from candidate i on: score, gate, build the result
RECURSIVE preferenceMatchesFrom(_, _, _, _, _, _)
preferenceMatchesFrom(userProfile, candidateProfiles, basicMatches, criteria, algorithm, i) ==
    IF i > Len(candidateProfiles) THEN <<>>
    ELSE LET candidate == Profile(candidateProfiles[i])
             preferenceAlignment ==
                 analyzePreferenceMatch(userProfile, candidate, criteria, algorithm)
             basicMatch == FindMatch(basicMatches, candidate.userId)
             rest == preferenceMatchesFrom(userProfile, candidateProfiles, basicMatches,
                                           criteria, algorithm, i + 1)
         IN IF ~meetsMinimumThresholds(preferenceAlignment, criteria.minimumThresholds)
            THEN rest
            ELSE <<[basicMatch EXCEPT
                      !.compatibilityScore = preferenceAlignment.totalScore,
                      !.categoryScores = ScoresOf(preferenceAlignment.categoryAlignments)]>>
                 \o rest

\* the stages of a loop that scores every candidate and gates them afterwards
RECURSIVE MutBatchStages(_)
MutBatchStages(n) ==
    IF n = 0 THEN <<>>
    ELSE <<"CategoryScore">> \o MutBatchStages(n - 1) \o <<"ThresholdGate">>

\* the stages the Phase 3 loop logs over n candidates: each is scored and
\* then gated before the next is scored
RECURSIVE scoringStages(_)
scoringStages(n) ==
    IF n = 0 THEN <<>>
    ELSE scoringStages(n - 1) \o <<"CategoryScore", "ThresholdGate">>

\* findMatches has answered: Phases 2 to 5 of findAdvancedMatches
ResumeWithBasicMatches(r) ==
    LET req == requests[r]
        userProfile == Profile(req.userId)
        candidateProfiles ==
            applyDealBreakerFilters(userProfile, TargetIds(req.basicMatches),
                                    req.criteria.dealBreakers,
                                    enableDealBreakerFiltering, now)
        thrower == ThrowingIndex(userProfile, candidateProfiles)
        preferenceMatches ==
            preferenceMatchesFrom(userProfile, candidateProfiles, req.basicMatches,
                                  req.criteria, scoringAlgorithm, 1)
        sorted == SortMatches(preferenceMatches, advancedOrder(req.criteria.sort))
        limitedResults == Slice(sorted, config.maxResults)
        filtered == [req EXCEPT !.survivors = candidateProfiles,
                                !.stages = Append(@, "DealBreakerFilter")]
    IN /\ req.pc = "awaitBasicMatches"
       /\ requests' = [requests EXCEPT ![r] =
             IF thrower # 0
             THEN Fail([filtered EXCEPT !.stages = @ \o scoringStages(thrower - 1)
                                                     \o <<"CategoryScore">>],
                       "TypeError")
             ELSE [filtered EXCEPT
                      !.pc = "done",
                      !.stages = @ \o scoringStages(Len(candidateProfiles))
                                   \o <<"Rank", "Truncate", "Done">>,
                      !.result = limitedResults,
                      !.doneAt = now]]
       /\ UNCHANGED <<config, userCooldowns, matchQueue, lastSuccess, now>>
       /\ svcUnchanged

\* the caller has taken the outcome of the request
Collect(r) ==
    /\ requests[r].pc \in {"done", "failed"}
    /\ requests' = [requests EXCEPT ![r] = IdleRequest]
    /\ UNCHANGED <<config, userCooldowns, matchQueue, lastSuccess, now>>
    /\ svcUnchanged

\* a clearCooldown that empties the whole cooldown map
MutClearAllCooldowns(userId) ==
    /\ userCooldowns' = [u \in SeekerIds |-> NoDate]
    /\ lastSuccess' = [lastSuccess EXCEPT ![userId].cleared = (@ \/ lastSuccess[userId].at # NoDate)]
    /\ UNCHANGED <<config, matchQueue, requests, now>>
    /\ svcUnchanged

clearCooldown(userId) ==
    /\ userCooldowns' = [userCooldowns EXCEPT ![userId] = NoDate]
    /\ lastSuccess' = [lastSuccess EXCEPT ![userId].cleared = (@ \/ lastSuccess[userId].at # NoDate)]
    /\ UNCHANGED <<config, matchQueue, requests, now>>
    /\ svcUnchanged

\* updateConfig({field: value})
updateConfig(field, value) ==
    /\ config[field] # value
    /\ config' = [config EXCEPT ![field] = value]
    /\ UNCHANGED <<userCooldowns, matchQueue, requests, lastSuccess, now>>
    /\ svcUnchanged

Tick(maxTicks) ==
    /\ now < StartTime + maxTicks * TickMs
    /\ now' = now + TickMs
    /\ UNCHANGED <<config, userCooldowns, matchQueue, requests, lastSuccess>>
    /\ svcUnchanged

SvcIdle ==
    /\ config = defaultConfig
    /\ userCooldowns = [u \in SeekerIds |-> NoDate]
    /\ matchQueue = [u \in SeekerIds |-> NoQueue]
    /\ requests = [r \in Slots |-> IdleRequest]
    /\ lastSuccess = [u \in SeekerIds |-> NoSuccess]

-----------------------------------------------------------------------------
(* Stored matching preferences (PreferencesService over ProfileService).   *)
(* The storage of ProfileService is a mock in the sources (retrieveProfile *)
(* answers null, storeProfile only logs): storedPreferences holds the      *)
(* preferences of the one stored profile, as the database the mock stands  *)
(* for would.  A Partial<MatchingPreferences> is a record of the fields    *)
(* that are given.  A call suspends at its awaits of the profile service.  *)

AGE_LIMITS == [min |-> 18, max |-> 99]

DISTANCE_LIMITS == [min |-> Num(1, 1), max |-> Num(1000, 1)]

MAX_DEAL_BREAKERS == 10

\* { ...a, ...b }
Spread(a, b) ==
    [f \in DOMAIN a \cup DOMAIN b |-> IF f \in DOMAIN b THEN b[f] ELSE a[f]]

Has(preferences, field) == field \in DOMAIN preferences

ErrorIf(condition, code) == IF condition THEN <<code>> ELSE <<>>

\* a validation that does not look at the deal-breakers
MutValidateNoDealBreakers(preferences) ==
    IF Has(preferences, "maxDistance")
    THEN ErrorIf(JsLt(preferences.maxDistance, DISTANCE_LIMITS.min), "DISTANCE_TOO_LOW")
    ELSE <<>>

\* the codes of the errors validatePreferences collects, in its order
validatePreferences(preferences) ==
    (IF Has(preferences, "ageRange")
     THEN LET min == preferences.ageRange.min
              max == preferences.ageRange.max
          IN ErrorIf(min < AGE_LIMITS.min, "AGE_MIN_TOO_LOW")
             \o ErrorIf(max > AGE_LIMITS.max, "AGE_MAX_TOO_HIGH")
             \o ErrorIf(min >= max, "INVALID_AGE_RANGE")
             \o ErrorIf(max - min < 3, "AGE_RANGE_TOO_NARROW")
     ELSE <<>>)
    \o (IF Has(preferences, "maxDistance")
        THEN ErrorIf(JsLt(preferences.maxDistance, DISTANCE_LIMITS.min), "DISTANCE_TOO_LOW")
             \o ErrorIf(JsLt(DISTANCE_LIMITS.max, preferences.maxDistance), "DISTANCE_TOO_HIGH")
        ELSE <<>>)
    \o (IF Has(preferences, "sexualOrientations")
        THEN ErrorIf(Len(preferences.sexualOrientations) = 0, "NO_SEXUAL_ORIENTATIONS")
        ELSE <<>>)
    \o (IF Has(preferences, "relationshipTypes")
        THEN ErrorIf(Len(preferences.relationshipTypes) = 0, "NO_RELATIONSHIP_TYPES")
        ELSE <<>>)
    \o (IF Has(preferences, "dealBreakers")
        THEN ErrorIf(Len(preferences.dealBreakers) > MAX_DEAL_BREAKERS,
                     "TOO_MANY_DEAL_BREAKERS")
        ELSE <<>>)
    \o (IF Has(preferences, "heightRange")
        THEN ErrorIf(/\ preferences.heightRange.min # 0
                     /\ preferences.heightRange.max # 0
                     /\ preferences.heightRange.min >= preferences.heightRange.max,
                     "INVALID_HEIGHT_RANGE")
        ELSE <<>>)

\* ProfileService.validateProfileData, for a request that carries preferences only
validateProfileData(preferences) ==
    (IF Has(preferences, "ageRange")
     THEN ErrorIf(preferences.ageRange.min < 18, "PREFERENCE_AGE_MIN_INVALID")
          \o ErrorIf(preferences.ageRange.max > 99, "PREFERENCE_AGE_MAX_INVALID")
          \o ErrorIf(preferences.ageRange.min >= preferences.ageRange.max,
                     "PREFERENCE_AGE_RANGE_INVALID")
     ELSE <<>>)
    \o (IF Has(preferences, "maxDistance")
        THEN ErrorIf(~JsLt(Num(0, 1), preferences.maxDistance), "PREFERENCE_DISTANCE_INVALID")
             \o ErrorIf(JsLt(Num(1000, 1), preferences.maxDistance),
                        "PREFERENCE_DISTANCE_TOO_LARGE")
        ELSE <<>>)

PresetIds == {"casual_nearby", "open_minded", "selective", "adventurous"}

\* the preferences of the preset with the given id
getPreferencePresets(presetId) ==
    CASE presetId = "casual_nearby" ->
            [ageRange |-> [min |-> 21, max |-> 35], maxDistance |-> Num(25, 1),
             relationshipTypes |-> <<"casual", "hookup">>,
             sexualOrientations |-> <<"straight", "bisexual">>]
      [] presetId = "open_minded" ->
            [ageRange |-> [min |-> 20, max |-> 45], maxDistance |-> Num(50, 1),
             relationshipTypes |-> <<"casual", "hookup", "friends_with_benefits">>,
             sexualOrientations |-> <<"straight", "bisexual", "gay", "lesbian">>]
      [] presetId = "selective" ->
            [ageRange |-> [min |-> 25, max |-> 40], maxDistance |-> Num(30, 1),
             relationshipTypes |-> <<"casual", "short_term">>,
             dealBreakers |-> <<"smoking", "no_photos">>]
      [] presetId = "adventurous" ->
            [ageRange |-> [min |-> 18, max |-> 50], maxDistance |-> Num(75, 1),
             relationshipTypes |-> <<"casual", "hookup", "friends_with_benefits",
                                     "open_relationship">>,
             sexualOrientations |-> <<"straight", "bisexual", "pansexual">>]

\* [...new Set(seq)]: the first occurrence of each element, in order
RECURSIVE Deduplicate(_)
Deduplicate(seq) ==
    IF Len(seq) = 0 THEN <<>>
    ELSE LET front == Deduplicate(SubSeq(seq, 1, Len(seq) - 1))
             last == seq[Len(seq)]
         IN IF Includes(front, last) THEN front ELSE Append(front, last)

\* existing.filter(d => !removed.includes(d))
Without(existing, removed) ==
    SelectSeq(existing, LAMBDA d : ~Includes(removed, d))

qualityDealBreakers == <<"no_verification", "no_photos">>

\* the preferences optimizePreferences hands to updatePreferences
optimizedPreferences(currentPreferences, goals) ==
    LET quantity ==
            IF "prioritizeQuantity" \in goals
            THEN [currentPreferences EXCEPT
                    !.maxDistance = JsMin(JsMul(@, Num(3, 2)), Num(100, 1)),
                    !.ageRange = [min |-> MaxInt(@.min - 2, AGE_LIMITS.min),
                                  max |-> MinInt(@.max + 5, AGE_LIMITS.max)]]
            ELSE currentPreferences
        quality ==
            IF "prioritizeQuality" \in goals
            THEN [quantity EXCEPT
                    !.dealBreakers = @ \o Without(qualityDealBreakers, @)]
            ELSE quantity
        distance ==
            IF "increaseDistance" \in goals
            THEN [quality EXCEPT
                    !.maxDistance = JsMin(JsMul(@, Num(2, 1)), DISTANCE_LIMITS.max)]
            ELSE quality
    IN IF "expandAge" \in goals
       THEN [distance EXCEPT
               !.ageRange = [min |-> MaxInt(@.min - 3, AGE_LIMITS.min),
                             max |-> MinInt(@.max + 7, AGE_LIMITS.max)]]
       ELSE distance

PrefSlots == {1, 2}

\* the one user with a stored profile, and a user without
StoredUser == "u1"

IdlePrefCall ==
    [pc |-> "idle", op |-> "none", userId |-> StoredUser,
     preferences |-> <<>>, dealBreakers |-> <<>>, goals |-> {},
     updatedPreferences |-> <<>>,
     attempted |-> <<>>,     \* history: the deal-breaker list the call asks to store
     wrote |-> FALSE,        \* history: the call has stored preferences
     errors |-> <<>>]

FailCall(call, codes) == [call EXCEPT !.pc = "failed", !.errors = codes]

\* updatePreferences up to its await of getProfileByUserId
EnterUpdatePreferences(call, preferences) ==
    [call EXCEPT !.pc = "awaitProfile", !.preferences = preferences,
                 !.attempted = IF Has(preferences, "dealBreakers")
                               THEN preferences.dealBreakers ELSE <<>>]

prefUnchanged == UNCHANGED <<pfsConfigVars, now, aggVars, dbVars, svcVars, engVars>>

updatePreferences(c, userId, preferences) ==
    /\ prefCalls[c].pc = "idle"
    /\ prefCalls' = [prefCalls EXCEPT ![c] =
          EnterUpdatePreferences([@ EXCEPT !.op = "updatePreferences", !.userId = userId],
                                 preferences)]
    /\ UNCHANGED <<storedPreferences, prefCallCount>>
    /\ prefUnchanged

applyPreferencePreset(c, userId, presetId) ==
    /\ prefCalls[c].pc = "idle"
    /\ prefCalls' = [prefCalls EXCEPT ![c] =
          LET call == [@ EXCEPT !.op = "applyPreferencePreset", !.userId = userId]
          IN IF presetId \notin PresetIds THEN FailCall(call, <<"PRESET_NOT_FOUND">>)
             ELSE EnterUpdatePreferences(call, getPreferencePresets(presetId))]
    /\ UNCHANGED <<storedPreferences, prefCallCount>>
    /\ prefUnchanged

\* addDealBreakers and removeDealBreakers up to their await of getPreferences
addDealBreakers(c, userId, dealBreakers) ==
    /\ prefCalls[c].pc = "idle"
    /\ prefCalls' = [prefCalls EXCEPT ![c] =
          [@ EXCEPT !.pc = "awaitPreferences", !.op = "addDealBreakers",
                    !.userId = userId, !.dealBreakers = dealBreakers]]
    /\ UNCHANGED <<storedPreferences, prefCallCount>>
    /\ prefUnchanged

removeDealBreakers(c, userId, dealBreakers) ==
    /\ prefCalls[c].pc = "idle"
    /\ prefCalls' = [prefCalls EXCEPT ![c] =
          [@ EXCEPT !.pc = "awaitPreferences", !.op = "removeDealBreakers",
                    !.userId = userId, !.dealBreakers = dealBreakers]]
    /\ UNCHANGED <<storedPreferences, prefCallCount>>
    /\ prefUnchanged

optimizePreferences(c, userId, goals) ==
    /\ prefCalls[c].pc = "idle"
    /\ prefCalls' = [prefCalls EXCEPT ![c] =
          [@ EXCEPT !.pc = "awaitPreferences", !.op = "optimizePreferences",
                    !.userId = userId, !.goals = goals]]
    /\ UNCHANGED <<storedPreferences, prefCallCount>>
    /\ prefUnchanged

\* the three callers of getPreferences after it has answered
withCurrentPreferences(call, currentPreferences) ==
    CASE call.op = "addDealBreakers" ->
            LET updatedDealBreakers ==
                    Deduplicate(currentPreferences.dealBreakers \o call.dealBreakers)
            IN IF Len(updatedDealBreakers) > MAX_DEAL_BREAKERS
               THEN FailCall([call EXCEPT !.attempted = updatedDealBreakers],
                             <<"TOO_MANY_DEAL_BREAKERS">>)
               ELSE EnterUpdatePreferences(call, [dealBreakers |-> updatedDealBreakers])
      [] call.op = "removeDealBreakers" ->
            EnterUpdatePreferences(call,
                [dealBreakers |-> Without(currentPreferences.dealBreakers,
                                          call.dealBreakers)])
      [] call.op = "optimizePreferences" ->
            EnterUpdatePreferences(call, optimizedPreferences(currentPreferences, call.goals))

ResumeWithPreferences(c) ==
    /\ prefCalls[c].pc = "awaitPreferences"
    /\ prefCalls' = [prefCalls EXCEPT ![c] =
          IF @.userId # StoredUser THEN FailCall(@, <<"PROFILE_NOT_FOUND">>)
          ELSE withCurrentPreferences(@, storedPreferences)]
    /\ UNCHANGED <<storedPreferences, prefCallCount>>
    /\ prefUnchanged

\* updatePreferences after getProfileByUserId has answered, up to updateProfile's
\* await of getProfile
ResumeUpdatePreferences(c) ==
    /\ prefCalls[c].pc = "awaitProfile"
    /\ LET call == prefCalls[c]
           validationErrors == validatePreferences(call.preferences)
       IN prefCalls' = [prefCalls EXCEPT ![c] =
             IF call.userId # StoredUser THEN FailCall(call, <<"PROFILE_NOT_FOUND">>)
             ELSE IF Len(validationErrors) > 0 THEN FailCall(call, validationErrors)
             ELSE [call EXCEPT !.pc = "awaitExisting",
                               !.updatedPreferences =
                                   Spread(storedPreferences, call.preferences)]]
    /\ UNCHANGED <<storedPreferences, prefCallCount>>
    /\ prefUnchanged

\* ProfileService.updateProfile after getProfile has answered: validation,
\* the merge with the profile as it is now, and storeProfile
ResumeUpdateProfile(c) ==
    /\ prefCalls[c].pc = "awaitExisting"
    /\ LET call == prefCalls[c]
           validationErrors == validateProfileData(call.updatedPreferences)
       IN IF Len(validationErrors) > 0
          THEN /\ prefCalls' = [prefCalls EXCEPT ![c] = FailCall(@, validationErrors)]
               /\ UNCHANGED storedPreferences
          ELSE /\ storedPreferences' = Spread(storedPreferences, call.updatedPreferences)
               /\ prefCalls' = [prefCalls EXCEPT ![c] =
                                   [@ EXCEPT !.pc = "done", !.wrote = TRUE]]
    /\ UNCHANGED prefCallCount
    /\ prefUnchanged

\* the caller takes the outcome; the slot is free for the next call
CollectPreferences(c, maxCalls) ==
    /\ prefCalls[c].pc \in {"done", "failed"}
    /\ prefCallCount < maxCalls
    /\ prefCalls' = [prefCalls EXCEPT ![c] = IdlePrefCall]
    /\ prefCallCount' = prefCallCount + 1
    /\ UNCHANGED storedPreferences
    /\ prefUnchanged

\* the preferences buildMatchingPreferences gives a new profile
defaultPreferences ==
    [ageRange |-> [min |-> 18, max |-> 35], maxDistance |-> Num(50, 1),
     sexualOrientations |-> <<"straight">>,
     relationshipTypes |-> <<"casual", "hookup">>,
     dealBreakers |-> <<>>]

PrefIdle ==
    /\ storedPreferences = defaultPreferences
    /\ prefCalls = [c \in PrefSlots |-> IdlePrefCall]
    /\ prefCallCount = 0

(***************************************************************************)
(* Explanation Generator and Optimization Advisor                          *)
(* (PreferenceFilteringService)                                            *)
(***************************************************************************)
\* a >= b and a > b as the operators of the language decide them
JsGe(a, b) == a.k # "nan" /\ b.k # "nan" /\ ~JsLt(a, b)

JsGt(a, b) == JsLt(b, a)

\* Object.entries(categoryAlignments): the categories in insertion order
CategoryOrder == <<"physical", "lifestyle", "social", "relationship">>

\* Math.round(data.score * 100)
Percent(score) == JsRound(JsMul(score, Num(100, 1)))

\* the list of generateMatchExplanation a category's score puts it on
ListOf(score) ==
    IF JsGe(score, Tenths(8)) THEN "primaryReasons"
    ELSE IF JsGe(score, Tenths(6)) THEN "secondaryReasons"
    ELSE IF JsLt(score, Tenths(4)) THEN "potentialConcerns"
    ELSE "none"

\* the entries the forEach over the categories pushes on one list
ReasonsOn(list, categoryAlignments) ==
    LET on == SelectSeq(CategoryOrder,
                        LAMBDA c : ListOf(categoryAlignments[c].score) = list)
    IN [i \in 1..Len(on) |->
          [category |-> on[i], percent |-> Percent(categoryAlignments[on[i]].score)]]

\* an assessment whose first two tiers are exchanged
MutAssessmentTiersSwapped(totalScore) ==
    IF JsGe(totalScore, Num(85, 100)) THEN "very_good"
    ELSE IF JsGe(totalScore, Tenths(7)) THEN "excellent"
    ELSE IF JsGe(totalScore, Num(55, 100)) THEN "good"
    ELSE "fair"

overallAssessment(totalScore) ==
    IF JsGe(totalScore, Num(85, 100)) THEN "excellent"
    ELSE IF JsGe(totalScore, Tenths(7)) THEN "very_good"
    ELSE IF JsGe(totalScore, Num(55, 100)) THEN "good"
    ELSE "fair"

\* matchedPreferences.physical is the empty list analyzePreferenceMatches
\* returns, so no highlight is pushed
generateMatchExplanation(userProfile, candidate, preferenceAlignment) ==
    [matchId |-> <<"match", userProfile.userId, candidate.userId>>,
     primaryReasons |-> ReasonsOn("primaryReasons", preferenceAlignment.categoryAlignments),
     secondaryReasons |-> ReasonsOn("secondaryReasons", preferenceAlignment.categoryAlignments),
     compatibilityHighlights |-> <<>>,
     potentialConcerns |-> ReasonsOn("potentialConcerns", preferenceAlignment.categoryAlignments),
     overallAssessment |-> overallAssessment(preferenceAlignment.totalScore),
     recommendationStrength |-> preferenceAlignment.totalScore]

CompatibilityScores(currentResults) ==
    [i \in 1..Len(currentResults) |-> currentResults[i].compatibilityScore]

analyzeCurrentSettings(userProfile, currentResults) ==
    LET avgCompatibility ==
            IF Len(currentResults) > 0
            THEN Average(CompatibilityScores(currentResults))
            ELSE Num(0, 1)
    IN [restrictiveness |->
            IF JsGt(avgCompatibility, Tenths(8)) THEN "very_strict"
            ELSE IF JsGt(avgCompatibility, Num(65, 100)) THEN "strict"
            ELSE IF JsGt(avgCompatibility, Tenths(5)) THEN "moderate"
            ELSE IF JsGt(avgCompatibility, Num(35, 100)) THEN "relaxed"
            ELSE "very_relaxed",
        expectedMatches |-> Len(currentResults),
        averageCompatibility |-> avgCompatibility]

\* suggestions that look at the goals only
MutSuggestionsWithoutQuality(userProfile, goals, currentResults) ==
    IF "prioritizeQuantity" \in goals /\ Len(currentResults) < 10
    THEN <<[type |-> "expand_age", impact |-> "high", expectedIncrease |-> 40],
           [type |-> "increase_distance", impact |-> "high", expectedIncrease |-> 60]>>
    ELSE <<>>

generateOptimizationSuggestions(userProfile, goals, currentResults) ==
    (IF "prioritizeQuantity" \in goals /\ Len(currentResults) < 10
     THEN <<[type |-> "expand_age", impact |-> "high", expectedIncrease |-> 40],
            [type |-> "increase_distance", impact |-> "high", expectedIncrease |-> 60]>>
     ELSE <<>>)
    \o
    (IF "prioritizeQuality" \in goals
     THEN <<[type |-> "add_preference", impact |-> "medium", expectedIncrease |-> -20]>>
     ELSE <<>>)

generatePreferencePresets(userProfile, goals) ==
    <<[name |-> "Quality Focused", expectedMatches |-> 5],
      [name |-> "Quantity Focused", expectedMatches |-> 25],
      [name |-> "Balanced", expectedMatches |-> 15]>>

optimizePreferenceSettings(userProfile, goals, currentResults) ==
    [currentSettings |-> analyzeCurrentSettings(userProfile, currentResults),
     suggestions |-> generateOptimizationSuggestions(userProfile, goals, currentResults),
     presets |-> generatePreferencePresets(userProfile, goals)]

NotRun == <<"not_run">>

\* nothing scored, explained or advised yet
NoAlignment == [totalScore |-> NotComputed, categoryAlignments |-> <<>>]

NoExplanation ==
    [matchId |-> <<>>, primaryReasons |-> <<>>, secondaryReasons |-> <<>>,
     compatibilityHighlights |-> <<>>, potentialConcerns |-> <<>>,
     overallAssessment |-> "none", recommendationStrength |-> NotComputed]

NoAdvice ==
    [currentSettings |-> [restrictiveness |-> "none", expectedMatches |-> 0,
                          averageCompatibility |-> NotComputed],
     suggestions |-> <<>>, presets |-> <<>>]

EngIdle ==
    /\ scSeeker = Profile("s1")
    /\ scCandidate = Profile("c1")
    /\ scCriteria = BaseCriteria
    /\ scAlignment = NoAlignment
    /\ scExplanation = NoExplanation
    /\ advGoals = {}
    /\ advResults = <<>>
    /\ advSuggestions = NoAdvice


-----------------------------------------------------------------------------
(* The aggregator as a function of its inputs: SpecAgg draws the category  *)
(* scores, the weights and the configured algorithm, then applies          *)
(* calculateWeightedCompatibility to the weights and to the scaled weights *)

MaxScale == 3

ScoreLevels == {0, 2, 10}

WeightLevels == {-1, 0, 2}

ScoreInputs ==
    {ScoreRecord(Tenths(p), Tenths(l), Tenths(s), Tenths(r)) :
        p \in ScoreLevels, l \in ScoreLevels, s \in ScoreLevels, r \in ScoreLevels}
    \cup {ScenarioCScores, ScoreRecord(Tenths(9), Tenths(2), Tenths(5), Tenths(7))}

WeightInputs ==
    {ScoreRecord(Tenths(p), Tenths(l), Tenths(s), Tenths(r)) :
        p \in WeightLevels, l \in WeightLevels, s \in WeightLevels, r \in WeightLevels}
    \cup {ScenarioCWeights, defaultWeights,
          ScoreRecord(Tenths(2), Tenths(-1), Tenths(0), Tenths(0))}

ScaleFactors == {Num(k, 1) : k \in 2..MaxScale} \cup {Num(1, k) : k \in 2..MaxScale}

ScaledWeights(w, k) == [c \in Categories |-> JsMul(k, w[c])]

\* the threshold gate not applied yet
NoGate ==
    [low |-> NotComputed, high |-> NotComputed, thresholds |-> lenientThresholds,
     passLow |-> FALSE, passHigh |-> FALSE]

AggIdle ==
    /\ categoryScores = ScenarioCScores
    /\ weights = defaultWeights
    /\ scaleK = Num(1, 1)
    /\ overall = NotComputed
    /\ overallScaled = NotComputed
    /\ gate = NoGate

DbIdle ==
    /\ dbSeeker = "s1"
    /\ dbPool = <<>>
    /\ dbActive = <<>>
    /\ dbResult = NotRun
    /\ dbAt = NoDate
    /\ dbAgain = NotRun
    /\ dbLater = NotRun

InitAgg ==
    /\ scoringAlgorithm \in Algorithms \cup {UnknownAlgorithm}
    /\ enableDealBreakerFiltering = TRUE
    /\ now = StartTime
    /\ DbIdle
    /\ SvcIdle
    /\ PrefIdle
    /\ EngIdle
    /\ categoryScores \in ScoreInputs
    /\ weights \in WeightInputs
    /\ scaleK = Num(1, 1)
    /\ overall = NotComputed
    /\ overallScaled = NotComputed
    /\ gate = NoGate

Aggregate ==
    /\ overall = NotComputed
    /\ overall' = calculateWeightedCompatibility(categoryScores, weights, scoringAlgorithm)
    /\ UNCHANGED <<categoryScores, weights, scaleK, overallScaled, gate>>
    /\ UNCHANGED <<pfsConfigVars, now, dbVars, svcVars, prefVars, engVars>>

AggregateScaled ==
    /\ overall # NotComputed
    /\ overallScaled = NotComputed
    /\ gate = NoGate
    /\ \E k \in ScaleFactors :
          /\ scaleK' = k
          /\ overallScaled' = calculateWeightedCompatibility(
                                 categoryScores, ScaledWeights(weights, k), scoringAlgorithm)
    /\ UNCHANGED <<categoryScores, weights, overall, gate>>
    /\ UNCHANGED <<pfsConfigVars, now, dbVars, svcVars, prefVars, engVars>>

\* thresholds.overall values, and the per-category thresholds they go with
OverallThresholdLevels == {Num(0, 1), Tenths(5), Tenths(6), Num(1, 1)}

CategoryThresholdInputs == {lenientThresholds, defaultThresholds}

AlignmentOf(cs, totalScore) ==
    [totalScore |-> totalScore,
     categoryAlignments |-> [c \in Categories |-> [score |-> cs[c]]]]

\* the threshold gate applied to the scored candidate with thresholds.overall
\* at a and at a higher b, the per-category thresholds the same
ApplyThresholdGate ==
    /\ overall # NotComputed
    /\ overallScaled = NotComputed
    /\ gate = NoGate
    /\ \E a \in OverallThresholdLevels, b \in OverallThresholdLevels,
          th \in CategoryThresholdInputs :
          /\ JsLt(a, b)
          /\ gate' = [low |-> a, high |-> b, thresholds |-> th,
                      passLow |-> meetsMinimumThresholds(
                                     AlignmentOf(categoryScores, overall),
                                     [th EXCEPT !.overall = a]),
                      passHigh |-> meetsMinimumThresholds(
                                     AlignmentOf(categoryScores, overall),
                                     [th EXCEPT !.overall = b])]
    /\ UNCHANGED <<categoryScores, weights, scaleK, overall, overallScaled>>
    /\ UNCHANGED <<pfsConfigVars, now, dbVars, svcVars, prefVars, engVars>>

NextAgg == Aggregate \/ AggregateScaled \/ ApplyThresholdGate

SpecAgg == InitAgg /\ [][NextAgg]_vars

-----------------------------------------------------------------------------
(* The deal-breaker filter as a function of its inputs: SpecDB draws the   *)
(* seeker, the candidate list, the active ids and the feature flag, then   *)
(* applies applyDealBreakerFilters                                         *)

MaxPool == 2

MaxActive == 2

DbCandidates == {"c2", "c3", "c4", "c5"}

InitDB ==
    /\ scoringAlgorithm = "weighted_average"
    /\ enableDealBreakerFiltering \in BOOLEAN
    /\ now = StartTime
    /\ AggIdle
    /\ SvcIdle
    /\ PrefIdle
    /\ EngIdle
    /\ dbSeeker \in SeekerIds
    /\ dbPool \in DistinctSeqs(DbCandidates, MaxPool)
    /\ dbActive \in DistinctSeqs(DealBreakerIds \cup {UnknownDealBreaker}, MaxActive)
    /\ dbResult = NotRun
    /\ dbAt = NoDate
    /\ dbAgain = NotRun
    /\ dbLater = NotRun

ApplyDealBreakers ==
    /\ dbResult = NotRun
    /\ dbResult' = applyDealBreakerFilters(Profile(dbSeeker), dbPool, dbActive,
                                           enableDealBreakerFiltering, now)
    /\ dbAt' = now
    /\ UNCHANGED <<dbSeeker, dbPool, dbActive, dbAgain, dbLater>>
    /\ UNCHANGED <<pfsConfigVars, now, aggVars, svcVars, prefVars, engVars>>

NextDB == ApplyDealBreakers

SpecDB == InitDB /\ [][NextDB]_vars

-----------------------------------------------------------------------------
(* The deal-breaker filter applied to its own result: SpecDBTwice draws    *)
(* the inputs as SpecDB does, applies applyDealBreakerFilters, lets the    *)
(* clock that inactive_users and new_profiles read (Date.now()) advance or *)
(* not, and applies the filter with the same ids to the result             *)

MaxDbTicks == 1

\* two hours: a profile created 23 hours before the first application is no
\* longer new, and a candidate last active 14 days less an hour before it
\* has become inactive
DbTickMs == 2 * MsPerHour

TwiceCandidates == {"c1", "c2", "c5", "c10"}

TwiceDealBreakers ==
    {"smoking", "inactive_users", "new_profiles", "age_gaps", UnknownDealBreaker}

InitDBTwice ==
    /\ scoringAlgorithm = "weighted_average"
    /\ enableDealBreakerFiltering \in BOOLEAN
    /\ now = StartTime
    /\ AggIdle
    /\ SvcIdle
    /\ PrefIdle
    /\ EngIdle
    /\ dbSeeker \in SeekerIds
    /\ dbPool \in DistinctSeqs(TwiceCandidates, MaxPool)
    /\ dbActive \in DistinctSeqs(TwiceDealBreakers, MaxActive)
    /\ dbResult = NotRun
    /\ dbAt = NoDate
    /\ dbAgain = NotRun
    /\ dbLater = NotRun

DbTick ==
    /\ dbAgain = NotRun
    /\ now < StartTime + MaxDbTicks * DbTickMs
    /\ now' = now + DbTickMs
    /\ UNCHANGED <<pfsConfigVars, aggVars, dbVars, svcVars, prefVars, engVars>>

ApplyDealBreakersAgain ==
    /\ dbResult # NotRun
    /\ dbAgain = NotRun
    /\ dbAgain' = applyDealBreakerFilters(Profile(dbSeeker), dbResult, dbActive,
                                          enableDealBreakerFiltering, now)
    /\ dbLater' = applyDealBreakerFilters(Profile(dbSeeker), dbPool, dbActive,
                                          enableDealBreakerFiltering, now)
    /\ UNCHANGED <<dbSeeker, dbPool, dbActive, dbResult, dbAt>>
    /\ UNCHANGED <<pfsConfigVars, now, aggVars, svcVars, prefVars, engVars>>

NextDBTwice == ApplyDealBreakers \/ DbTick \/ ApplyDealBreakersAgain

SpecDBTwice == InitDBTwice /\ [][NextDBTwice]_vars

-----------------------------------------------------------------------------
(* One discovery request through the pipeline: Spec draws the criteria,    *)
(* the available users and the locations, and follows the request from the *)
(* call to its outcome while the configuration may be updated              *)

MaxAvailable == 2

PipelineCandidates == {"c1", "c2", "c6", "c7", "c8", "c9"}

\* distances in km the random places can give; with these the basic score
\* is off every rounding boundary, where doubles and rationals could differ
DistanceLevels == {2, 8}

zeroWeights == ScoreRecord(Num(0, 1), Num(0, 1), Num(0, 1), Num(0, 1))

strictThresholds == [lenientThresholds EXCEPT !.overall = Tenths(8), !.lifestyle = Tenths(9)]

BasicCriteriaInputs ==
    {BaseCriteria,
     [BaseCriteria EXCEPT !.maxDistance = 5],
     [BaseCriteria EXCEPT !.maxDistance = 150],
     [BaseCriteria EXCEPT !.ageRange = AgeRange(27, 32)],
     [BaseCriteria EXCEPT !.ageRange = AgeRange(16, 30)],
     [BaseCriteria EXCEPT !.maxDistance = 150, !.ageRange = AgeRange(16, 30)],
     [BaseCriteria EXCEPT !.ageRange = NoAgeRange, !.sexualOrientations = <<"straight">>,
                          !.lastActiveWithin = 24]}

AdvancedCriteriaInputs ==
    BasicCriteriaInputs \cup
    {[BaseCriteria EXCEPT !.dealBreakers = <<"smoking">>],
     [BaseCriteria EXCEPT !.dealBreakers = <<"no_photos", "height_mismatch">>],
     [BaseCriteria EXCEPT !.minimumThresholds = defaultThresholds],
     [BaseCriteria EXCEPT !.minimumThresholds = strictThresholds],
     [BaseCriteria EXCEPT !.preferenceWeights = zeroWeights,
                          !.minimumThresholds = defaultThresholds],
     [BaseCriteria EXCEPT !.preferenceWeights = ScenarioCWeights,
                          !.minimumThresholds = defaultThresholds,
                          !.dealBreakers = <<"smoking">>],
     [BaseCriteria EXCEPT !.sort = [by |-> "compatibility", direction |-> "asc"]],
     [BaseCriteria EXCEPT !.sort = [by |-> "distance", direction |-> "asc"]]}

\* the available users: candidates in any order, with or without the seeker
AvailableUsersInputs(userId) ==
    {pool \o self : pool \in DistinctSeqs(PipelineCandidates, MaxAvailable),
                    self \in {<<>>, <<userId>>}}

\* the location data a caller of findMatches hands in: for everyone, for
\* everyone but the seeker, or for everyone but the first available user
UserLocationInputs(userId, availableUsers) ==
    LET everyone == IF Includes(availableUsers, userId) THEN availableUsers
                    ELSE availableUsers \o <<userId>>
    IN UNION {{locs, SelectSeq(locs, LAMBDA l : l.userId # userId), Tail(locs)} :
                 locs \in RandomLocations(userId, everyone, DistanceLevels)}

AdvancedCalls ==
    UNION {{[criteria |-> c, availableUsers |-> a, userLocations |-> <<>>] :
               a \in AvailableUsersInputs(c.userId)} : c \in AdvancedCriteriaInputs}

BasicCalls ==
    UNION {UNION {{[criteria |-> c, availableUsers |-> a, userLocations |-> l] :
                      l \in UserLocationInputs(c.userId, a)} :
                  a \in AvailableUsersInputs(c.userId)} : c \in BasicCriteriaInputs}

PipelineConfigUpdates == {<<"maxResults", 1>>, <<"maxResults", 50>>}

Init ==
    /\ scoringAlgorithm = "weighted_average"
    /\ enableDealBreakerFiltering = TRUE
    /\ now = StartTime
    /\ AggIdle
    /\ DbIdle
    /\ SvcIdle
    /\ PrefIdle
    /\ EngIdle

Next ==
    \/ CallFindAdvancedMatches(1, AdvancedCalls)
    \/ CallFindMatches(1, BasicCalls)
    \/ ResumeWithProfile(1, DistanceLevels)
    \/ ResumeWithLocation(1)
    \/ ResumeWithScores(1)
    \/ ResumeWithBasicMatches(1)
    \/ \E update \in PipelineConfigUpdates : updateConfig(update[1], update[2])

Spec == Init /\ [][Next]_vars

-----------------------------------------------------------------------------
(* The service over time: SpecService lets clients call for two seekers,   *)
(* one request after the other, while the clock advances and the           *)
(* administrative functions are used                                       *)

MaxTicks == 3

ServiceDistances == {2}

CriteriaOf(userId) == [BaseCriteria EXCEPT !.userId = userId]

ServiceAdvancedCalls ==
    {[criteria |-> CriteriaOf(u), availableUsers |-> <<"c1", u>>, userLocations |-> <<>>] :
        u \in SeekerIds}
    \cup {[criteria |-> [CriteriaOf("s1") EXCEPT !.dealBreakers = <<"smoking">>],
           availableUsers |-> <<"c2", "c8", "s1">>, userLocations |-> <<>>]}

ServiceBasicCalls ==
    {[criteria |-> CriteriaOf(u), availableUsers |-> <<"c3", "c1">>,
      userLocations |-> <<[userId |-> "c3", distance |-> 8],
                          [userId |-> "c1", distance |-> 2],
                          [userId |-> u, distance |-> 0]>>] : u \in SeekerIds}
    \cup {[criteria |-> [CriteriaOf("s1") EXCEPT !.maxDistance = 150],
           availableUsers |-> <<"c1">>,
           userLocations |-> <<[userId |-> "c1", distance |-> 2],
                               [userId |-> "s1", distance |-> 0]>>],
          [criteria |-> CriteriaOf("s2"), availableUsers |-> <<"c1">>,
           userLocations |-> <<[userId |-> "c1", distance |-> 2]>>]}

ServiceConfigUpdates == {<<"cooldownPeriod", 10>>, <<"cooldownPeriod", 5>>}

InitService == Init

\* the clients of SpecService call one after the other
ServiceSlots == {1}

NextService ==
    \/ \E r \in ServiceSlots :
          \/ CallFindAdvancedMatches(r, ServiceAdvancedCalls)
          \/ CallFindMatches(r, ServiceBasicCalls)
          \/ ResumeWithProfile(r, ServiceDistances)
          \/ ResumeWithLocation(r)
          \/ ResumeWithScores(r)
          \/ ResumeWithBasicMatches(r)
          \/ Collect(r)
    \/ \E userId \in SeekerIds : clearCooldown(userId)
    \/ \E update \in ServiceConfigUpdates : updateConfig(update[1], update[2])
    \/ Tick(MaxTicks)

SpecService == InitService /\ [][NextService]_vars

-----------------------------------------------------------------------------
(* Requests in flight together: SpecConcurrent lets two clients call       *)
(* findMatches, for the same seeker or for two, their calls interleaving   *)
(* at the awaits, while the clock advances and cooldowns are cleared       *)

MaxConcurrentTicks == 1

ConcurrentCalls ==
    {[criteria |-> CriteriaOf(u), availableUsers |-> <<"c1", "c2">>,
      userLocations |-> <<[userId |-> "c1", distance |-> 8],
                          [userId |-> "c2", distance |-> 2],
                          [userId |-> u, distance |-> 0]>>] : u \in SeekerIds}

InitConcurrent == Init

NextConcurrent ==
    \/ \E r \in Slots :
          \/ CallFindMatches(r, ConcurrentCalls)
          \/ ResumeWithLocation(r)
          \/ ResumeWithScores(r)
          \/ Collect(r)
    \/ \E userId \in SeekerIds : clearCooldown(userId)
    \/ \E update \in ServiceConfigUpdates : updateConfig(update[1], update[2])
    \/ Tick(MaxConcurrentTicks)

SpecConcurrent == InitConcurrent /\ [][NextConcurrent]_vars

-----------------------------------------------------------------------------
(* One findMatches under every configuration: SpecFilter draws criteria,   *)
(* a pool and location data, and lets the filtering switches and           *)
(* maxResults be updated before and while the request runs                 *)

MaxFilterPool == 2

FilterCandidates == {"c1", "c2", "c4", "c11"}

FilterCriteriaInputs ==
    {[BaseCriteria EXCEPT !.maxDistance = 5, !.ageRange = AgeRange(27, 32)],
     [BaseCriteria EXCEPT !.ageRange = NoAgeRange, !.sexualOrientations = <<"straight">>]}

FilterCalls ==
    UNION {UNION {{[criteria |-> c, availableUsers |-> pool \o <<c.userId>>,
                    userLocations |-> l] :
                      l \in UserLocationInputs(c.userId, pool \o <<c.userId>>)} :
                  pool \in DistinctSeqs(FilterCandidates, MaxFilterPool)} :
           c \in FilterCriteriaInputs}

FilterConfigUpdates ==
    {<<"enableAgeFiltering", FALSE>>, <<"enableAgeFiltering", TRUE>>,
     <<"enableLocationFiltering", FALSE>>, <<"enableLocationFiltering", TRUE>>,
     <<"maxResults", 1>>, <<"maxResults", 50>>, <<"maxResults", -1>>}

InitFilter == Init

NextFilter ==
    \/ CallFindMatches(1, FilterCalls)
    \/ ResumeWithLocation(1)
    \/ ResumeWithScores(1)
    \/ \E update \in FilterConfigUpdates : updateConfig(update[1], update[2])

SpecFilter == InitFilter /\ [][NextFilter]_vars

-----------------------------------------------------------------------------
(* The stored preferences under the calls of PreferencesService: SpecPrefs *)
(* starts from a stored profile with none, nine or ten deal-breakers and   *)
(* lets two clients call, the calls interleaving at their awaits           *)

MaxPrefCalls == 1

\* ten of the twelve ids of getDealBreakerOptions, the two that
\* optimizePreferences adds left out
TenDealBreakers ==
    <<"smoking", "heavy_drinking", "drug_use", "no_exercise",
      "body_type_restrictions", "height_restrictions", "inactive_users",
      "new_profiles", "long_distance", "age_gaps">>

InitialDealBreakers == {<<>>, SubSeq(TenDealBreakers, 1, 9), TenDealBreakers}

ElevenDealBreakers == TenDealBreakers \o <<"no_photos">>

\* updatePreferences calls: the user and the preferences given
UpdateInputs ==
    {<<StoredUser, [dealBreakers |-> <<>>]>>,
     <<StoredUser, [dealBreakers |-> ElevenDealBreakers]>>,
     <<StoredUser, [dealBreakers |-> <<"smoking", "smoking">>]>>,
     <<StoredUser, [maxDistance |-> Num(2000, 1), ageRange |-> [min |-> 17, max |-> 18]]>>,
     <<"u2", [dealBreakers |-> ElevenDealBreakers]>>}

AddInputs == {<<"no_photos", "no_verification">>, <<"smoking">>}

RemoveInputs == {<<"smoking", "heavy_drinking">>}

PresetInputs == {"selective", "casual_nearby", "unknown_preset"}

GoalInputs ==
    {{"prioritizeQuality"}, {"prioritizeQuantity", "increaseDistance", "expandAge"}}

InitPrefs ==
    /\ scoringAlgorithm = "weighted_average"
    /\ enableDealBreakerFiltering = TRUE
    /\ now = StartTime
    /\ AggIdle
    /\ DbIdle
    /\ SvcIdle
    /\ EngIdle
    /\ storedPreferences \in
          {[defaultPreferences EXCEPT !.dealBreakers = d] : d \in InitialDealBreakers}
    /\ prefCalls = [c \in PrefSlots |-> IdlePrefCall]
    /\ prefCallCount = 0

NextPrefs ==
    \E c \in PrefSlots :
        \/ \E call \in UpdateInputs : updatePreferences(c, call[1], call[2])
        \/ \E presetId \in PresetInputs : applyPreferencePreset(c, StoredUser, presetId)
        \/ \E dealBreakers \in AddInputs : addDealBreakers(c, StoredUser, dealBreakers)
        \/ \E dealBreakers \in RemoveInputs : removeDealBreakers(c, StoredUser, dealBreakers)
        \/ \E goals \in GoalInputs : optimizePreferences(c, StoredUser, goals)
        \/ ResumeWithPreferences(c)
        \/ ResumeUpdatePreferences(c)
        \/ ResumeUpdateProfile(c)
        \/ CollectPreferences(c, MaxPrefCalls)

SpecPrefs == InitPrefs /\ [][NextPrefs]_vars

-----------------------------------------------------------------------------
(* The scorers and the explanation generator as functions of their inputs: *)
(* SpecScore draws the seeker (with and without a preferred age range),    *)
(* the candidate and its age, the preference weights and the algorithm,    *)
(* applies analyzePreferenceMatch and then generateMatchExplanation        *)

MaxCandidateAge == 44

AgeInputs == 18..MaxCandidateAge

PreferredAgeRanges == {NoAgeRange, AgeRange(25, 35), AgeRange(30, 30)}

ScoreSeekers ==
    {[Profile(s) EXCEPT !.prefAgeRange = r] : s \in SeekerIds, r \in PreferredAgeRanges}

ScoreCandidateIds == {"c1", "c2", "c3", "c4", "c5", "c8"}

ScoreCandidates ==
    {[Profile(c) EXCEPT !.age = a] : c \in ScoreCandidateIds, a \in AgeInputs}

ScoreWeightInputs == {defaultWeights, ScenarioCWeights, zeroWeights}

\* the analysis raised a TypeError
ThrewAlignment == [totalScore |-> NotComputed, categoryAlignments |-> <<"TypeError">>]

InitScore ==
    /\ scoringAlgorithm \in Algorithms
    /\ enableDealBreakerFiltering = TRUE
    /\ now = StartTime
    /\ AggIdle
    /\ DbIdle
    /\ SvcIdle
    /\ PrefIdle
    /\ scSeeker \in ScoreSeekers
    /\ scCandidate \in ScoreCandidates
    /\ scCriteria \in {[BaseCriteria EXCEPT !.preferenceWeights = w] : w \in ScoreWeightInputs}
    /\ scAlignment = NoAlignment
    /\ scExplanation = NoExplanation
    /\ advGoals = {}
    /\ advResults = <<>>
    /\ advSuggestions = NoAdvice

engUnchanged == UNCHANGED <<pfsConfigVars, now, aggVars, dbVars, svcVars, prefVars>>

ScorePair ==
    /\ scAlignment = NoAlignment
    /\ scAlignment' =
          IF interestsThrows(scSeeker, scCandidate) THEN ThrewAlignment
          ELSE analyzePreferenceMatch(scSeeker, scCandidate, scCriteria, scoringAlgorithm)
    /\ UNCHANGED <<scSeeker, scCandidate, scCriteria, scExplanation,
                   advGoals, advResults, advSuggestions>>
    /\ engUnchanged

Explain ==
    /\ scAlignment \notin {NoAlignment, ThrewAlignment}
    /\ scExplanation = NoExplanation
    /\ scExplanation' = generateMatchExplanation(scSeeker, scCandidate, scAlignment)
    /\ UNCHANGED <<scSeeker, scCandidate, scCriteria, scAlignment,
                   advGoals, advResults, advSuggestions>>
    /\ engUnchanged

NextScore == ScorePair \/ Explain

SpecScore == InitScore /\ [][NextScore]_vars

-----------------------------------------------------------------------------
(* The advisor as a function of its inputs: SpecAdvisor draws the goals    *)
(* and a batch of recent results and applies optimizePreferenceSettings    *)

MaxBatch == 11

AdvisorGoals == SUBSET {"prioritizeQuantity", "prioritizeQuality", "expandAge"}

\* n recent results of which the first high are of compatibility 0.9 and
\* the others of 0.3
Batch(n, high) ==
    [i \in 1..n |-> [compatibilityScore |-> IF i <= high THEN Tenths(9) ELSE Tenths(3)]]

BatchInputs == {Batch(n, high) : n \in 0..MaxBatch, high \in {0, 1, MaxBatch}}

InitAdvisor ==
    /\ scoringAlgorithm = "weighted_average"
    /\ enableDealBreakerFiltering = TRUE
    /\ now = StartTime
    /\ AggIdle
    /\ DbIdle
    /\ SvcIdle
    /\ PrefIdle
    /\ scSeeker \in {Profile(s) : s \in SeekerIds}
    /\ scCandidate = Profile("c1")
    /\ scCriteria = BaseCriteria
    /\ scAlignment = NoAlignment
    /\ scExplanation = NoExplanation
    /\ advGoals \in AdvisorGoals
    /\ advResults \in BatchInputs
    /\ advSuggestions = NoAdvice

Advise ==
    /\ advSuggestions = NoAdvice
    /\ advSuggestions' = optimizePreferenceSettings(scSeeker, advGoals, advResults)
    /\ UNCHANGED <<scSeeker, scCandidate, scCriteria, scAlignment, scExplanation,
                   advGoals, advResults>>
    /\ engUnchanged

NextAdvisor == Advise

SpecAdvisor == InitAdvisor /\ [][NextAdvisor]_vars

-----------------------------------------------------------------------------
(* Claims about the stored preferences                                     *)

\* C19: from a stored profile with at most 10 deal-breakers, whatever calls
\* of updatePreferences, addDealBreakers, removeDealBreakers,
\* applyPreferencePreset and optimizePreferences are made, the stored
\* deal-breaker list has at most 10 entries; a call for that profile that asks
\* for a list of more than 10 fails with TOO_MANY_DEAL_BREAKERS and stores
\* nothing.
C19_AtMostTenDealBreakers ==
    /\ Len(storedPreferences.dealBreakers) <= 10
    /\ \A c \in PrefSlots :
          LET call == prefCalls[c]
          IN (call.userId = StoredUser /\ Len(call.attempted) > 10)
             => /\ ~call.wrote
                /\ call.pc \in {"awaitProfile", "failed"}
                /\ call.pc = "failed" => Includes(call.errors, "TOO_MANY_DEAL_BREAKERS")

C19_Witness ==
    /\ Len(storedPreferences.dealBreakers) = 10
    /\ \E c \in PrefSlots :
          /\ prefCalls[c].op = "optimizePreferences"
          /\ prefCalls[c].pc = "failed"
          /\ Len(prefCalls[c].attempted) = 12
          /\ prefCalls[c].errors = <<"TOO_MANY_DEAL_BREAKERS">>
    /\ prefCallCount > 0

-----------------------------------------------------------------------------
(* Claims about the deal-breaker filter                                    *)

TriggersAny(seekerId, candidateId, ids, t) ==
    \E id \in ids : isDealBreakerTriggered(Profile(seekerId), Profile(candidateId), id, t)

\* C1: with filtering enabled and a non-empty active list, the filter returns
\* exactly the candidates for which no active id has a true predicate, in pool
\* order, and every ordering of the active ids gives that same result.
C1_ExactlyUntriggeredAnyOrder ==
    (dbResult # NotRun /\ enableDealBreakerFiltering /\ Len(dbActive) > 0)
    => /\ LET Keep(c) == ~TriggersAny(dbSeeker, c, Range(dbActive), now)
          IN dbResult = SelectSeq(dbPool, Keep)
       /\ \A other \in DistinctSeqs(Range(dbActive), Len(dbActive)) :
             Range(other) = Range(dbActive)
             => applyDealBreakerFilters(Profile(dbSeeker), dbPool, other,
                                        enableDealBreakerFiltering, now) = dbResult

\* a pool of which the second active id removes one candidate and the first none
C1_Witness ==
    /\ dbResult = <<"c5">>
    /\ dbPool = <<"c4", "c5">>
    /\ dbActive = <<"smoking", "age_gaps">>
    /\ dbSeeker = "s1"
    /\ enableDealBreakerFiltering

\* C14: with an empty active list or with deal-breaker filtering disabled,
\* applyDealBreakerFilters returns the candidate list it was given, same
\* candidates in the same order, and changes neither its inputs nor any
\* service state.
C14_IdentityWhenEmptyOrDisabled ==
    [][(/\ dbResult = NotRun
        /\ dbResult' # NotRun
        /\ (Len(dbActive) = 0 \/ ~enableDealBreakerFiltering))
       => /\ dbResult' = dbPool
          /\ UNCHANGED <<dbSeeker, dbPool, dbActive>>
          /\ UNCHANGED <<pfsConfigVars, now, aggVars, svcVars, prefVars, engVars>>]_vars

C14_Witness ==
    /\ ~enableDealBreakerFiltering
    /\ dbSeeker = "s1"
    /\ dbActive = <<"smoking">>
    /\ dbPool = <<"c3", "c2">>
    /\ dbResult = <<"c3", "c2">>

ReadsClock(ids) == Includes(ids, "inactive_users") \/ Includes(ids, "new_profiles")

BodyTypeOnly ==
    /\ dbResult # NotRun
    /\ enableDealBreakerFiltering
    /\ dbActive = <<"body_type_mismatch">>

\* C20 as claimed: body_type_mismatch eliminates a candidate exactly when the
\* seeker's preferred body types are non-empty and the candidate's body type
\* is not one of them, a candidate with no body type recorded included.
C20_TriggersAlsoWithoutBodyType ==
    BodyTypeOnly
    => \A c \in Range(dbPool) :
          (c \notin Range(dbResult))
          <=> /\ Profile(dbSeeker).prefBodyTypes # <<>>
              /\ Profile(c).bodyType \notin Range(Profile(dbSeeker).prefBodyTypes)

\* C20 as amended: body_type_mismatch eliminates a candidate exactly when the
\* seeker's preferred body types are non-empty, the candidate has a body type
\* recorded and it is not one of the preferred; a candidate with no body type
\* recorded is never eliminated by it.
C20_TriggersOnlyForRecordedBodyType ==
    BodyTypeOnly
    => \A c \in Range(dbPool) :
          (c \notin Range(dbResult))
          <=> /\ Profile(dbSeeker).prefBodyTypes # <<>>
              /\ Profile(c).bodyType # Undefined
              /\ Profile(c).bodyType \notin Range(Profile(dbSeeker).prefBodyTypes)

C20_Witness ==
    /\ BodyTypeOnly
    /\ dbSeeker = "s1"
    /\ dbPool = <<"c3", "c5">>
    /\ dbResult = <<"c5">>

-----------------------------------------------------------------------------
(* Claims about the aggregator                                             *)

Hundredths(x) == (x.n * 100) \div x.d

TotalHundredths(w) ==
    Hundredths(w.physical) + Hundredths(w.lifestyle) + Hundredths(w.social)
        + Hundredths(w.relationship)

WeightedSumHundredths(cs, w) ==
    Hundredths(cs.physical) * Hundredths(w.physical)
        + Hundredths(cs.lifestyle) * Hundredths(w.lifestyle)
        + Hundredths(cs.social) * Hundredths(w.social)
        + Hundredths(cs.relationship) * Hundredths(w.relationship)

\* C4: under weighted_average the overall score is the sum of
\* categoryScore_i * weight_i divided by the sum of the four weights, whenever
\* that sum is positive; Scenario C (weights .6/.2/.1/.1, scores .9/.5/.5/.5)
\* gives 0.74.
C4_WeightedAverageFormula ==
    (scoringAlgorithm = "weighted_average" /\ overall # NotComputed
        /\ TotalHundredths(weights) > 0)
    => /\ overall.k = "num"
       /\ overall.n * (100 * TotalHundredths(weights))
            = overall.d * WeightedSumHundredths(categoryScores, weights)
       /\ (categoryScores = ScenarioCScores /\ weights = ScenarioCWeights)
            => overall = Num(74, 100)

C4_Witness ==
    /\ scoringAlgorithm = "weighted_average"
    /\ categoryScores = ScenarioCScores
    /\ weights = ScenarioCWeights
    /\ overall = Num(74, 100)

InUnitInterval(x) ==
    /\ x.k \in {"num", "root4"}
    /\ ~JsLt(x, Num(0, 1))
    /\ ~JsLt(Num(1, 1), x)

\* C9: for any four weights (all zero, negative, non-positive sum included) the
\* aggregator returns a defined overall score in [0,1] when the four category
\* scores are in [0,1].
C9_DefinedInUnitInterval ==
    overall # NotComputed => InUnitInterval(overall)

NonNegative(w) == \A c \in Categories : w[c].n >= 0

\* C10: under weighted_average, scaling four non-negative weights of positive
\* sum by one positive constant leaves the overall score unchanged.
C10_ScaleInvariant ==
    (scoringAlgorithm = "weighted_average" /\ overallScaled # NotComputed
        /\ NonNegative(weights) /\ TotalHundredths(weights) > 0)
    => overallScaled = overall

C10_Witness ==
    /\ scoringAlgorithm = "weighted_average"
    /\ overallScaled # NotComputed
    /\ weights = defaultWeights
    /\ scaleK = Num(3, 1)
    /\ categoryScores = ScoreRecord(Tenths(9), Tenths(2), Tenths(5), Tenths(7))
    /\ overallScaled = overall
    /\ overall.k = "num"

\* a score that is a whole number of tenths, in tenths
InTenths(x) == (x.n * 10) \div x.d

ProductTenThousandths(cs) ==
    InTenths(cs.physical) * InTenths(cs.lifestyle) * InTenths(cs.social)
        * InTenths(cs.relationship)

TenThousand == 10 * 10 * 10 * 10

\* C11: under multiplicative the overall score is the fourth root of the
\* product of the four category scores, whatever the weights are, and it is
\* exactly 0 when any one category score is exactly 0.
C11_MultiplicativeFourthRoot ==
    (scoringAlgorithm = "multiplicative" /\ overall # NotComputed)
    => /\ overall.k \in {"num", "root4"}
       /\ overall.k = "num" =>
            /\ overall.n >= 0
            /\ overall.n * overall.n * overall.n * overall.n * TenThousand
                 = overall.d * overall.d * overall.d * overall.d
                     * ProductTenThousandths(categoryScores)
       /\ overall.k = "root4" =>
            overall.n * TenThousand = overall.d * ProductTenThousandths(categoryScores)
       /\ (\E c \in Categories : categoryScores[c].n = 0) => overall = Num(0, 1)
       /\ overallScaled # NotComputed => overallScaled = overall

C11_Witness ==
    /\ scoringAlgorithm = "multiplicative"
    /\ categoryScores = ScoreRecord(Tenths(2), Tenths(2), Tenths(2), Tenths(2))
    /\ weights = ScenarioCWeights
    /\ overall = Tenths(2)

MinTenths(cs) ==
    CHOOSE m \in {InTenths(cs[c]) : c \in Categories} :
        \A c \in Categories : m <= InTenths(cs[c])

\* C12: under hybrid the overall score is the weighted average times a
\* penalty, minCategoryScore/0.3 when the smallest category score is below 0.3
\* and 1 otherwise; so it never exceeds the weighted average of the same
\* inputs and equals it when every category score is at least 0.3.
C12_HybridPenaltyNeverExceeds ==
    (scoringAlgorithm = "hybrid" /\ overall # NotComputed)
    => LET average == weightedAverage(categoryScores, weights)
           m == MinTenths(categoryScores)
           penalty == IF m < 3 THEN Num(m, 3) ELSE Num(1, 1)
       IN /\ overall = JsMul(average, penalty)
          /\ ~JsLt(average, overall)
          /\ m >= 3 => overall = average

\* C13: with a configured algorithm that is none of the three, the aggregator
\* returns exactly 0.5 for every category-score and weight input.
C13_UnknownAlgorithmNeutral ==
    (scoringAlgorithm \notin Algorithms)
    => /\ overall # NotComputed => overall = Num(1, 2)
       /\ overallScaled # NotComputed => overallScaled = Num(1, 2)

C13_Witness ==
    /\ scoringAlgorithm = UnknownAlgorithm
    /\ weights = zeroWeights
    /\ categoryScores = ScenarioCScores
    /\ overall = Num(1, 2)

\* C16: for fixed scores and fixed per-category thresholds, a candidate that
\* passes the threshold gate with thresholds.overall = b also passes it with
\* any lower thresholds.overall = a.
C16_RaisingOverallOnlyShrinks ==
    gate # NoGate => (gate.passHigh => gate.passLow)

C16_Witness ==
    /\ gate # NoGate
    /\ scoringAlgorithm = "weighted_average"
    /\ categoryScores = ScenarioCScores
    /\ weights = ScenarioCWeights
    /\ gate.low = Tenths(6)
    /\ gate.high = Num(1, 1)
    /\ gate.thresholds = lenientThresholds
    /\ gate.passLow
    /\ ~gate.passHigh

-----------------------------------------------------------------------------
(* Claims about the discovery pipeline                                     *)

\* the requests findAdvancedMatches has returned a result list for
Returned == {r \in Slots : requests[r].pc = "done" /\ requests[r].kind = "advanced"}

\* C2: a list findAdvancedMatches returns holds no candidate that triggers a
\* predicate of the request's active deal-breakers; with 'smoking' active it
\* holds no candidate who smokes regularly or socially.
C2_NoTriggeringCandidateReturned ==
    \A r \in Returned :
        LET req == requests[r]
        IN \A i \in 1..Len(req.result) :
              LET id == req.result[i].targetUserId
              IN /\ ~TriggersAny(req.userId, id, Range(req.criteria.dealBreakers), req.doneAt)
                 /\ Includes(req.criteria.dealBreakers, "smoking")
                       => Profile(id).smoking \notin {"regularly", "socially"}

\* a regular smoker passed the basic matching and 'smoking' removed them
C2_Witness ==
    \E r \in Returned :
        LET req == requests[r]
        IN /\ req.criteria.dealBreakers = <<"smoking">>
           /\ Includes(TargetIds(req.basicMatches), "c2")
           /\ TargetIds(req.result) = <<"c1">>

\* the category scores the scorers give the pair, computed afresh
RawScores(seekerId, candidateId) ==
    ScoresOf(calculateCategoryScores(Profile(seekerId), Profile(candidateId)))

\* C3: a list findAdvancedMatches returns holds no candidate whose overall
\* score is below minimumThresholds.overall, and none for which a defined
\* per-category threshold exceeds the raw category score, whatever the weights.
C3_ThresholdsHoldForReturned ==
    \A r \in Returned :
        LET req == requests[r]
            thresholds == req.criteria.minimumThresholds
        IN \A i \in 1..Len(req.result) :
              LET m == req.result[i]
              IN /\ ~JsLt(m.compatibilityScore, thresholds.overall)
                 /\ m.compatibilityScore =
                       calculateWeightedCompatibility(RawScores(req.userId, m.targetUserId),
                                                      req.criteria.preferenceWeights,
                                                      scoringAlgorithm)
                 /\ \A c \in Categories :
                       thresholds[c] # NotSet
                       => ~JsLt(RawScores(req.userId, m.targetUserId)[c], thresholds[c])

\* the gate let one candidate through and held another back
C3_Witness ==
    \E r \in Returned :
        LET req == requests[r]
        IN /\ req.criteria.minimumThresholds = defaultThresholds
           /\ req.criteria.preferenceWeights = defaultWeights
           /\ config.maxResults = 50
           /\ Len(req.survivors) = 2
           /\ Len(req.result) = 1

\* C5: an exception a scorer raises for one candidate never fails the
\* findAdvancedMatches pass: a request fails only at entry (no profile,
\* cooldown, invalid criteria, no location), and otherwise reaches Done.
C5_ScorerExceptionNeverFailsPass ==
    \A r \in Slots :
        (requests[r].kind = "advanced" /\ requests[r].pc = "failed")
        => requests[r].error \in {"USER_NOT_FOUND", "cooldown", "max_distance_exceeded",
                                  "invalid_age_range", "location_unavailable"}

\* the criteria fields that break a validation rule
ViolatedFields(criteria, cfg) ==
    (IF criteria.maxDistance > cfg.maxRadius THEN {"maxDistance"} ELSE {})
    \cup (IF /\ criteria.ageRange.defined
             /\ \/ criteria.ageRange.min < 18
                \/ criteria.ageRange.max > 99
                \/ criteria.ageRange.min >= criteria.ageRange.max
          THEN {"ageRange"} ELSE {})

\* the criteria fields an error of a failed request reports
FieldsReported(error) ==
    CASE error = "max_distance_exceeded" -> {"maxDistance"}
      [] error = "invalid_age_range" -> {"ageRange"}
      [] OTHER -> {}

\* C18: a discovery request whose criteria break several validation rules at
\* once is rejected with one validation error that lists every violated
\* field, not only the first violation found.
C18_EveryViolatedFieldListed ==
    \A r \in Slots :
        (requests[r].pc = "failed"
            /\ requests[r].error \in {"max_distance_exceeded", "invalid_age_range"})
        => ViolatedFields(requests[r].criteria, config)
              \subseteq FieldsReported(requests[r].error)

\* the user ids in ascending order
IdOrder == <<"c1", "c2", "c3", "c4", "c5", "c6", "c7", "c8", "c9", "s1", "s2">>

IdLess(a, b) == IndexOf(IdOrder, a) < IndexOf(IdOrder, b)

\* C7: a list returned under the default ordering (by compatibility,
\* descending) is sorted by overall score descending with ties ordered by
\* candidate id.
C7_SortedWithIdTieBreak ==
    \A r \in Returned :
        LET req == requests[r]
        IN req.criteria.sort = [by |-> "compatibility", direction |-> "desc"]
           => \A i \in 1..Len(req.result) : \A j \in (i + 1)..Len(req.result) :
                 LET a == req.result[i]
                     b == req.result[j]
                 IN (IsFinite(a.compatibilityScore) /\ IsFinite(b.compatibilityScore))
                    => /\ ~JsLt(a.compatibilityScore, b.compatibilityScore)
                       /\ a.compatibilityScore = b.compatibilityScore
                             => IdLess(a.targetUserId, b.targetUserId)

EightStages ==
    <<"Init", "LocationFilter", "DealBreakerFilter", "CategoryScore", "ThresholdGate",
      "Rank", "Truncate", "Done">>

-----------------------------------------------------------------------------
(* Claims about the cooldown                                               *)

\* the requests that have entered findMatches
Entered == {r \in Slots : requests[r].enteredAt # NoDate}

RejectedForCooldown(r) == requests[r].pc = "failed" /\ requests[r].error = "cooldown"

\* C6 as stated: a request entering before t + cooldownPeriod, t the
\* seeker's latest successful completion, is rejected for cooldown, and one
\* entering later is not.
C6_RejectedThroughoutCooldown ==
    \A r \in Entered :
        IF requests[r].dueAtEntry THEN RejectedForCooldown(r) ELSE ~RejectedForCooldown(r)

\* C6: with t the seeker's latest successful completion and cooldownPeriod
\* the period configured at t, a request entering before t + cooldownPeriod
\* is rejected at entry, before validation, filtering and scoring, as long as
\* clearCooldown was not called for the seeker since t; a request entering
\* at or after t + cooldownPeriod is not rejected for cooldown.
C6_RejectedUntilElapsedOrCleared ==
    \A r \in Entered :
        LET req == requests[r]
        IN /\ (req.dueAtEntry /\ ~req.clearedAtEntry)
                 => /\ RejectedForCooldown(r)
                    /\ req.scoredMatches = <<>>
                    /\ req.result = <<>>
           /\ ~req.dueAtEntry => ~RejectedForCooldown(r)

\* a request with invalid criteria, entering inside the cooldown, is rejected
\* for the cooldown and not for its criteria
C6_Witness ==
    \E r \in Entered :
        /\ requests[r].dueAtEntry
        /\ ~requests[r].clearedAtEntry
        /\ requests[r].criteria.maxDistance > config.maxRadius
        /\ RejectedForCooldown(r)

-----------------------------------------------------------------------------
(* Claims about the scorers, the explanation generator and the advisor     *)

Scored == scAlignment \notin {NoAlignment, ThrewAlignment}

\* the band of the claim, in tenths, for age a and the range lo..hi
AgeBandTenths(a, lo, hi) ==
    IF lo <= a /\ a <= hi THEN 10
    ELSE LET d == IF a < lo THEN lo - a ELSE a - hi
         IN IF d <= 2 THEN 7 ELSE IF d <= 5 THEN 4 ELSE 1

\* how far age a lies outside lo..hi
OutsideBy(a, lo, hi) == IF a < lo THEN lo - a ELSE IF a > hi THEN a - hi ELSE 0

\* C21: with a preferred age range [min, max] the age sub-factor is 1.0 for
\* min <= a <= max (bounds included), 0.7 up to 2 years outside, 0.4 up to 5
\* and 0.1 beyond, and no age further outside the range scores higher
C21_AgeBandsInclusive ==
    (Scored /\ scSeeker.prefAgeRange.defined) =>
        LET r == scSeeker.prefAgeRange
            age == scAlignment.categoryAlignments.physical.breakdown.age
        IN /\ age = Tenths(AgeBandTenths(scCandidate.age, r.min, r.max))
           /\ \A a \in AgeInputs :
                 OutsideBy(a, r.min, r.max) >= OutsideBy(scCandidate.age, r.min, r.max)
                 => ~JsLt(age, calculateAgeCompatibility(scSeeker,
                                                         [scCandidate EXCEPT !.age = a]))

C21_Witness ==
    /\ Scored
    /\ scSeeker.prefAgeRange = AgeRange(25, 35)
    /\ scCandidate.age = 35
    /\ scAlignment.categoryAlignments.physical.breakdown.age = One

\* ten times the sum of the sub-factor values of a breakdown (every value is
\* a multiple of a tenth or a half)
RECURSIVE SumTenths(_, _)
SumTenths(breakdown, fields) ==
    IF fields = {} THEN 0
    ELSE LET f == CHOOSE g \in fields : TRUE
         IN (breakdown[f].n * 10) \div breakdown[f].d
            + SumTenths(breakdown, fields \ {f})

IsMeanOfBreakdown(alignment) ==
    LET fields == DOMAIN alignment.breakdown
    IN /\ alignment.score.k = "num"
       /\ \A f \in fields : (alignment.breakdown[f].n * 10) % alignment.breakdown[f].d = 0
       /\ alignment.score.n * 10 * Cardinality(fields)
             = SumTenths(alignment.breakdown, fields) * alignment.score.d

\* C22: each category score of calculateCategoryScores is the arithmetic
\* mean of the sub-factor values of its breakdown, and every sub-factor and
\* category score lies in [0,1], profiles with missing optional fields included
C22_CategoryIsMeanInUnitInterval ==
    Scored =>
        \A c \in Categories :
            LET alignment == scAlignment.categoryAlignments[c]
            IN /\ IsMeanOfBreakdown(alignment)
               /\ InUnitInterval(alignment.score)
               /\ \A f \in DOMAIN alignment.breakdown : InUnitInterval(alignment.breakdown[f])

C22_Witness ==
    /\ Scored
    /\ scSeeker.userId = "s2"
    /\ scCandidate.userId = "c5"
    /\ scAlignment.categoryAlignments.lifestyle.score = Tenths(9)
    /\ scAlignment.categoryAlignments.physical.breakdown.height = Tenths(7)

Explained == scExplanation # NoExplanation

ListedOn(list, category) ==
    \E i \in 1..Len(scExplanation[list]) : scExplanation[list][i].category = category

TimesListed(list, category) ==
    Cardinality({i \in 1..Len(scExplanation[list]) : scExplanation[list][i].category = category})

\* n/d >= h hundredths, for a category score
AtLeastHundredths(x, h) == x.n * 100 >= h * x.d

\* the total score is at least h hundredths: a fourth root is compared by
\* its radicand, NaN is at least nothing
TotalAtLeast(x, h) ==
    CASE x.k = "num" -> AtLeastHundredths(x, h)
      [] x.k = "root4" -> ~NumLt(Radicand(x), Pow4(Num(h, 100)))
      [] x.k = "pinf" -> TRUE
      [] OTHER -> FALSE

\* C23: each category is on at most one list of the explanation: primary at
\* score >= 0.8, secondary at 0.6 <= score < 0.8, concern at score < 0.4,
\* none at 0.4 <= score < 0.6; the assessment is excellent from 0.85,
\* very_good from 0.70, good from 0.55 and fair otherwise
C23_ExplanationBands ==
    Explained =>
        /\ \A c \in Categories :
              LET score == scAlignment.categoryAlignments[c].score
              IN /\ ListedOn("primaryReasons", c) <=> AtLeastHundredths(score, 80)
                 /\ ListedOn("secondaryReasons", c) <=>
                       (AtLeastHundredths(score, 60) /\ ~AtLeastHundredths(score, 80))
                 /\ ListedOn("potentialConcerns", c) <=> ~AtLeastHundredths(score, 40)
                 /\ TimesListed("primaryReasons", c) + TimesListed("secondaryReasons", c)
                       + TimesListed("potentialConcerns", c) <= 1
        /\ scExplanation.overallAssessment =
              (IF TotalAtLeast(scAlignment.totalScore, 85) THEN "excellent"
               ELSE IF TotalAtLeast(scAlignment.totalScore, 70) THEN "very_good"
               ELSE IF TotalAtLeast(scAlignment.totalScore, 55) THEN "good"
               ELSE "fair")

C23_Witness ==
    /\ Explained
    /\ Len(scExplanation.primaryReasons) > 0
    /\ Len(scExplanation.secondaryReasons) > 0
    /\ Len(scExplanation.potentialConcerns) > 0
    /\ scExplanation.overallAssessment = "very_good"

Advised == advSuggestions # NoAdvice

Suggests(type) ==
    \E i \in 1..Len(advSuggestions.suggestions) : advSuggestions.suggestions[i].type = type

SuggestsStricterFilter ==
    \E i \in 1..Len(advSuggestions.suggestions) :
        /\ advSuggestions.suggestions[i].type = "add_preference"
        /\ advSuggestions.suggestions[i].expectedIncrease < 0

\* C24 as stated: quantity goals give the expand-age and increase-distance
\* suggestions and quality goals the stricter-filter suggestion with a
\* negative expected increase, whatever the size of the batch
C24_SuggestionsWhateverBatchSize ==
    Advised =>
        /\ "prioritizeQuantity" \in advGoals
              => (Suggests("expand_age") /\ Suggests("increase_distance"))
        /\ "prioritizeQuality" \in advGoals => SuggestsStricterFilter

\* C24 amended: the quantity suggestions are given when the batch has fewer
\* than 10 results; the quality suggestion is given whatever its size
C24_QuantitySuggestionsBelowTen ==
    Advised =>
        /\ ("prioritizeQuantity" \in advGoals /\ Len(advResults) < 10)
              => (Suggests("expand_age") /\ Suggests("increase_distance"))
        /\ "prioritizeQuality" \in advGoals => SuggestsStricterFilter

C24_Witness ==
    /\ Advised
    /\ advGoals = {"prioritizeQuantity", "prioritizeQuality"}
    /\ Len(advResults) = 9
    /\ Suggests("expand_age")
    /\ Suggests("increase_distance")
    /\ SuggestsStricterFilter

-----------------------------------------------------------------------------
(* Claims about the returned lists                                         *)

\* the overall compatibility the engine gives the pair under the request
CompatibilityOf(req, id) ==
    analyzePreferenceMatch(Profile(req.userId), Profile(id), req.criteria,
                           scoringAlgorithm).totalScore

\* the pool candidates of a request that pass the basic filter, the
\* distance limit, the deal-breakers and the threshold gate, and whose basic
\* scoring raises no error
EligibleIds(req) ==
    {id \in Range(req.availableUsers) :
        /\ passesBasicFilter(req.userId, req.criteria, Profile(id), req.userLocations,
                             config, now)
        /\ LocationOf(req.userLocations, id).distance <= req.criteria.maxDistance
        /\ ~activityThrows(Profile(id))
        /\ ~TriggersAny(req.userId, id, Range(req.criteria.dealBreakers), now)
        /\ meetsMinimumThresholds(
              analyzePreferenceMatch(Profile(req.userId), Profile(id), req.criteria,
                                     scoringAlgorithm),
              req.criteria.minimumThresholds)}

\* the step in which findAdvancedMatches returns its list for request r
ReturnsAdvanced(r) ==
    /\ requests[r].pc = "awaitBasicMatches"
    /\ requests'[r].pc = "done"

\* C26: the list findAdvancedMatches returns has min(maxResults, k) entries,
\* all of them among the k eligible candidates, and no eligible candidate
\* left out has a higher compatibility score than a candidate in the list
C26_TopKByCompatibility ==
    [][\A r \in Slots :
          ReturnsAdvanced(r) =>
              LET req == requests[r]
                  eligible == EligibleIds(req)
                  returned == Range(TargetIds(requests'[r].result))
              IN /\ Len(requests'[r].result)
                       = MinInt(config.maxResults, Cardinality(eligible))
                 /\ returned \subseteq eligible
                 /\ \A out \in eligible \ returned : \A in \in returned :
                       ~JsLt(CompatibilityOf(req, in), CompatibilityOf(req, out))]_vars

-----------------------------------------------------------------------------
(* Claims about the cooldown timers and the match queues                   *)

\* the step in which the findMatches of request r gets past its last await
\* and succeeds
SucceedsFindMatches(r) ==
    /\ requests[r].pc = "awaitScores"
    /\ requests'[r].pc \in {"done", "awaitBasicMatches"}

\* C25: of the findMatches requests for one seeker at most one succeeds
\* within one cooldown period: no request succeeds while the cooldown period
\* opened by the seeker's previous successful request is running and has not
\* been cleared.
C25_OneSuccessPerCooldownPeriod ==
    [][\A r \in Slots :
          SucceedsFindMatches(r) =>
              \/ ~CooldownDue(requests[r].userId)
              \/ lastSuccess[requests[r].userId].cleared]_vars

\* the failures of a request that C27 names: rejected for cooldown, rejected
\* by the validation, seeker location unavailable, seeker profile not found
RejectionErrors ==
    {"cooldown", "max_distance_exceeded", "invalid_age_range",
     "location_unavailable", "USER_NOT_FOUND"}

\* where a request stands before findMatches has filtered and scored
BeforeScoring == {"idle", "awaitProfile", "awaitLocation"}

\* a step of request r
StepOf(r) == requests'[r] # requests[r]

\* C27: a request that fails with one of the rejections fails before
\* findMatches has scored, and no step a request takes up to there changes a
\* cooldown timer or a match queue: the failed request leaves both as they
\* were, and a rejection never extends a cooldown.
C27_FailedRequestWritesNothing ==
    [][\A r \in Slots :
          StepOf(r) =>
              /\ (requests'[r].pc = "failed" /\ requests'[r].error \in RejectionErrors)
                     => requests[r].pc \in BeforeScoring
              /\ requests[r].pc \in BeforeScoring
                     => UNCHANGED <<userCooldowns, matchQueue>>]_vars

\* a request rejected for cooldown some time after the seeker's last success:
\* the cooldown still ends when that success said, and the queue is kept
C27_Witness ==
    \E r \in Slots :
        LET u == requests[r].userId
        IN /\ requests[r].pc = "failed"
           /\ requests[r].error = "cooldown"
           /\ lastSuccess[u].at # NoDate
           /\ requests[r].enteredAt > lastSuccess[u].at
           /\ userCooldowns[u] = lastSuccess[u].at + lastSuccess[u].period * MsPerMinute
           /\ matchQueue[u].present

\* the stored queue of a seeker is well formed
QueueWellFormed(q) ==
    q.present => /\ q.totalCount = Len(q.pendingMatches)
                 /\ q.processedCount = 0
                 /\ q.queueStatus = "active"

\* C28: a seeker's queue is written by a successful findMatches for that
\* seeker and by nothing else, and every successful findMatches stores the
\* list it returns: the queue, when present, holds the list of the seeker's
\* most recent successful findMatches, with totalCount the number of pending
\* matches, processedCount 0 and status active; and a seeker with a cooldown
\* entry has a queue.
C28_QueueIsLatestResult ==
    [][/\ \A u \in SeekerIds :
             /\ QueueWellFormed(matchQueue'[u])
             /\ userCooldowns'[u] # NoDate => matchQueue'[u].present
             /\ matchQueue'[u] # matchQueue[u]
                    => \E r \in Slots : SucceedsFindMatches(r) /\ requests[r].userId = u
       /\ \A r \in Slots :
             SucceedsFindMatches(r)
                 => LET q == matchQueue'[requests[r].userId]
                    IN /\ q.present
                       /\ q.pendingMatches = requests'[r].basicMatches]_vars

\* a later successful request of a seeker, entered after the cooldown of an
\* earlier success was cleared: the queue holds the list this request got
C28_Witness ==
    \E r \in Slots :
        LET u == requests[r].userId
        IN /\ requests[r].pc = "done"
           /\ requests[r].clearedAtEntry
           /\ Len(requests[r].basicMatches) = 1
           /\ requests[r].kind = "advanced"
           /\ matchQueue[u].pendingMatches = requests[r].basicMatches
           /\ matchQueue[u].totalCount = 1
           /\ userCooldowns[u] # NoDate

-----------------------------------------------------------------------------
(* Claims about the list findMatches returns                               *)

\* the matches of the list refer to pool candidates other than the seeker,
\* visible, with location data and of an accepted orientation, each at most
\* once
BasicFilterHolds(req, list) ==
    /\ \A i \in 1..Len(list) :
          LET id == list[i].targetUserId
          IN /\ id \in Range(req.availableUsers)
             /\ id # req.userId
             /\ Profile(id).isVisible
             /\ HasLocation(req.userLocations, id)
             /\ Len(req.criteria.sexualOrientations) > 0
                    => Includes(req.criteria.sexualOrientations,
                                Profile(id).sexualOrientation)
    /\ \A i, j \in 1..Len(list) :
          list[i].targetUserId = list[j].targetUserId => i = j

WithinDistance(req, id) ==
    LocationOf(req.userLocations, id).distance <= req.criteria.maxDistance

WithinAgeRange(req, id) ==
    req.criteria.ageRange.defined
        => /\ Profile(id).age >= req.criteria.ageRange.min
           /\ Profile(id).age <= req.criteria.ageRange.max

\* C29 as stated: every returned match is within maxDistance and inside the
\* age range, and the list has at most maxResults entries, under every
\* configuration.
C29_FilteredWhateverTheConfig ==
    [][\A r \in Slots :
          SucceedsFindMatches(r) =>
              LET req == requests[r]
                  list == requests'[r].basicMatches
              IN /\ BasicFilterHolds(req, list)
                 /\ \A i \in 1..Len(list) :
                       /\ WithinDistance(req, list[i].targetUserId)
                       /\ WithinAgeRange(req, list[i].targetUserId)
                 /\ Len(list) <= config.maxResults]_vars

\* C29, amended: every returned match refers to a pool candidate that is not
\* the seeker, is visible, has location data, has an accepted orientation
\* when the criteria list any, is within maxDistance when location filtering
\* was enabled as the request filtered, and is inside the age range when age
\* filtering was enabled then and the criteria give a range; no candidate is
\* returned twice, and the list has at most maxResults entries when
\* maxResults is not negative.
C29_FilteredAsConfigured ==
    [][\A r \in Slots :
          SucceedsFindMatches(r) =>
              LET req == requests[r]
                  list == requests'[r].basicMatches
              IN /\ BasicFilterHolds(req, list)
                 /\ \A i \in 1..Len(list) :
                       /\ req.switchesAtFilter.enableLocationFiltering
                              => WithinDistance(req, list[i].targetUserId)
                       /\ req.switchesAtFilter.enableAgeFiltering
                              => WithinAgeRange(req, list[i].targetUserId)
                 /\ config.maxResults >= 0 => Len(list) <= config.maxResults]_vars

\* a request that filtered with age filtering switched off and location
\* filtering on, over a pool with a hidden candidate, and returned a
\* candidate outside the age range
C29_Witness ==
    \E r \in Slots :
        LET req == requests[r]
        IN /\ req.pc = "done"
           /\ req.kind = "basic"
           /\ ~req.switchesAtFilter.enableAgeFiltering
           /\ req.switchesAtFilter.enableLocationFiltering
           /\ "c11" \in Range(req.availableUsers)
           /\ HasLocation(req.userLocations, "c11")
           /\ Len(req.result) = 1
           /\ ~WithinAgeRange(req, req.result[1].targetUserId)
           /\ WithinDistance(req, req.result[1].targetUserId)

-----------------------------------------------------------------------------
(* Claims about what a call for one seeker leaves alone                    *)

\* the cooldown timer and the match queue of seeker b are left as they are
KeepsSeeker(b) ==
    /\ userCooldowns'[b] = userCooldowns[b]
    /\ matchQueue'[b] = matchQueue[b]

\* C30: a step of a request for seeker A changes no cooldown timer and no
\* match queue but A's; a step that is no request's step (clearCooldown for
\* A among them) changes no queue and at most A's timer, which it removes;
\* and a request of A that enters after A's cooldown was cleared is not
\* rejected for cooldown.
C30_OtherSeekersUntouched ==
    [][/\ \A r \in Slots :
             StepOf(r) => \A b \in SeekerIds \ {requests'[r].userId} : KeepsSeeker(b)
       /\ requests' = requests
             => /\ matchQueue' = matchQueue
                /\ \E a \in SeekerIds :
                      /\ userCooldowns'[a] \in {userCooldowns[a], NoDate}
                      /\ \A b \in SeekerIds \ {a} : KeepsSeeker(b)
       /\ \A r \in Slots :
             (StepOf(r) /\ requests[r].pc = "idle" /\ requests'[r].clearedAtEntry)
                 => requests'[r].error # "cooldown"]_vars

\* seeker A's cooldown was cleared while it ran and A's next request got
\* through, while the request of seeker B, whose cooldown was not cleared,
\* is rejected for it
C30_Witness ==
    \E r, q \in Slots :
        /\ requests[r].userId # requests[q].userId
        /\ requests[r].pc = "awaitLocation"
        /\ requests[r].clearedAtEntry
        /\ requests[r].dueAtEntry
        /\ requests[q].pc = "failed"
        /\ requests[q].error = "cooldown"
        /\ requests[q].enteredAt >= requests[r].enteredAt
        /\ isUserOnCooldown(requests[q].userId)
        /\ userCooldowns[requests[r].userId] = NoDate
====
